---- MODULE Spec2Model ----
(***************************************************************************)
(* Weave-Toolkit MCP server: connection pool, graceful shutdown, request   *)
(* handlers (/mcp and /mcp/stream), the categorised tool registry and the  *)
(* streaming text tool.  Line numbers refer to src/internal/mcp/server.go  *)
(* unless another file is named.                                           *)
(***************************************************************************)
EXTENDS Integers, Sequences, FiniteSets, TLC

(***************************************************************************)
(* Bounds of the model.                                                    *)
(***************************************************************************)
NumProcs == 2        \* goroutines (pool clients / HTTP requests)
MaxCalls == 2        \* Acquire calls one pool client makes
PoolMaxSize == 1     \* cfg.MaxConnections, the pool's maxSize

Procs == 1..NumProcs

VARIABLES
  maxSize,   \* cp.maxSize, also the capacity of cp.pool
  pool,      \* cp.pool: the buffered channel of idle handles, FIFO
  active,    \* cp.active
  nextId,    \* source of fresh connection ids (generateConnectionID)
  stale,     \* stale[g]: values an unsynchronised read of cp.active by g may return
  ppc,       \* ppc[g]: position of goroutine g inside Acquire / Release
  pconn,     \* pconn[g]: the local variable conn of the call in progress
  pclient,   \* pclient[g]: the clientInfo argument of the Acquire in progress
  held,      \* held[g]: handles g has acquired and not yet released
  calls,     \* calls[g]: Acquire calls g has started
  lastRel,   \* the handle of the latest Release and the idle count it found
  cats,      \* tm.categories: category -> [tools, enabled, config]
  last,      \* the last registry operation and the error it returned
  nops,      \* registry operations performed
  rpc,       \* rpc[r]: position of request r in its handler
  endpoint,  \* endpoint[r]: "mcp" or "stream"
  rbody,     \* rbody[r]: the request body as read (local variable bodyBytes)
  rreq,      \* rreq[r]: the decoded request (local variable req)
  rconn,     \* rconn[r]: the handle the /mcp handler holds (local variable conn)
  resp,      \* resp[r]: the HTTP response of request r
  activeOps, \* s.activeOps: the WaitGroup counter
  shuttingDown, \* s.shuttingDown
  stopPc,    \* position of Stop: "running", "waiting", "closing"
  waitDone,  \* the channel done of Stop is closed (activeOps.Wait returned)
  forced,    \* Stop left its select through the time.After branch
  sent,      \* sent[r]: events handed to sendStreamEvent, in order
  wire,      \* wire[r]: events written to the response body, in order
  connAlive, \* connAlive[r]: w.Write still succeeds for request r
  emitq,     \* emitq[r]: callbacks the running ExecuteStream has yet to make
  emitted,   \* emitted[r]: callbacks the tool has made, in order
  sres,      \* sres[r]: the value the running ExecuteStream returns
  rlocks,    \* rlocks[g]: read locks of tm.mu that goroutine g holds
  wwait,     \* goroutines blocked in tm.mu.Lock()
  tcall      \* tcall[g]: the registry call goroutine g is in

poolVars == <<maxSize, pool, active, nextId, stale, ppc, pconn, pclient>>
clientVars == <<held, calls, lastRel>>
regVars == <<cats, last, nops>>
srvVars == <<rpc, endpoint, rbody, rreq, rconn, resp, activeOps>>
stopVars == <<shuttingDown, stopPc, waitDone, forced>>
strVars == <<sent, wire, connAlive, emitq, emitted, sres>>
lockVars == <<rlocks, wwait, tcall>>
serverSide == <<srvVars, stopVars, strVars, lockVars>>
vars == <<poolVars, clientVars, regVars, srvVars, stopVars, strVars, lockVars>>

ClientNames == {"unknown", "cli"}
NoConn == [id |-> 0, client |-> "none"]

(***************************************************************************)
(* ConnectionPool                                                          *)
(***************************************************************************)
\* NewConnectionPool(n): empty channel of capacity n, active = 0.
PoolInitSized(n) ==
  /\ maxSize = n
  /\ pool = <<>>
  /\ active = 0
  /\ nextId = 1
  /\ stale = [g \in Procs |-> {0}]
  /\ ppc = [g \in Procs |-> "idle"]
  /\ pconn = [g \in Procs |-> NoConn]
  /\ pclient = [g \in Procs |-> "none"]

\* NewServer: NewConnectionPool(maxConnections)
PoolInit == PoolInitSized(PoolMaxSize)

\* A write of cp.active made under cp.mu by goroutine g.  g itself now sees
\* exactly v; every other goroutine has not synchronised with this write, so
\* v joins the values its unlocked read may still return.
WriteActive(g, v) ==
  /\ active' = v
  /\ stale' = [h \in Procs |-> IF h = g THEN {v} ELSE stale[h] \cup {v}]

\* An Acquire that never looks at cp.pool.
AcquireSelectFresh(g, client) ==
  /\ ppc[g] = "idle"
  /\ pclient' = [pclient EXCEPT ![g] = client]
  /\ pool' = pool
  /\ pconn' = [pconn EXCEPT ![g] = NoConn]
  /\ ppc' = [ppc EXCEPT ![g] = "acq_check"]
  /\ UNCHANGED <<maxSize, active, nextId, stale>>

\* Acquire, the select: receive from cp.pool if a handle is buffered, else
\* take the default branch.
AcquireSelect(g, client) ==
  /\ ppc[g] = "idle"
  /\ pclient' = [pclient EXCEPT ![g] = client]
  /\ IF Len(pool) > 0
       THEN /\ pool' = Tail(pool)
            /\ pconn' = [pconn EXCEPT ![g] = Head(pool)]
            /\ ppc' = [ppc EXCEPT ![g] = "acq_pooled"]
       ELSE /\ pool' = pool
            /\ pconn' = [pconn EXCEPT ![g] = NoConn]
            /\ ppc' = [ppc EXCEPT ![g] = "acq_check"]
  /\ UNCHANGED <<maxSize, active, nextId, stale>>

\* Mutant: the default branch creates a handle without looking at cp.active.
AcquireCheckNoLimit(g) ==
  /\ ppc[g] = "acq_check"
  /\ pconn' = [pconn EXCEPT ![g] = [id |-> nextId, client |-> pclient[g]]]
  /\ ppc' = [ppc EXCEPT ![g] = "acq_new"]
  /\ nextId' = nextId + 1
  /\ UNCHANGED <<maxSize, pool, active, stale, pclient>>

\* Acquire, default branch: "if cp.active >= cp.maxSize" is read without
\* cp.mu (a data race): the value read is any value in stale[g].
AcquireCheck(g) ==
  /\ ppc[g] = "acq_check"
  /\ \E v \in stale[g] :
       IF v >= maxSize
         THEN /\ pconn' = [pconn EXCEPT ![g] = NoConn]
              /\ ppc' = [ppc EXCEPT ![g] = "acq_fail"]
              /\ nextId' = nextId
         ELSE /\ pconn' = [pconn EXCEPT ![g] = [id |-> nextId, client |-> pclient[g]]]
              /\ ppc' = [ppc EXCEPT ![g] = "acq_new"]
              /\ nextId' = nextId + 1
  /\ UNCHANGED <<maxSize, pool, active, stale, pclient>>

\* Acquire: cp.mu.Lock(); cp.active++; cp.mu.Unlock(); return conn, nil
AcquireInc(g) ==
  /\ ppc[g] \in {"acq_pooled", "acq_new"}
  /\ WriteActive(g, active + 1)
  /\ ppc' = [ppc EXCEPT ![g] = "acq_ok"]
  /\ UNCHANGED <<maxSize, pool, nextId, pconn, pclient>>

\* A Release whose send has no default branch: it waits for room in cp.pool.
ReleaseSelectBlocking(g, conn) ==
  /\ ppc[g] = "idle"
  /\ Len(pool) < maxSize
  /\ pool' = Append(pool, conn)
  /\ pconn' = [pconn EXCEPT ![g] = conn]
  /\ ppc' = [ppc EXCEPT ![g] = "rel_dec"]
  /\ UNCHANGED <<maxSize, active, nextId, stale, pclient>>

\* Release, the select: send conn to cp.pool if the buffer has room, else
\* take the default branch (the handle is dropped).
ReleaseSelect(g, conn) ==
  /\ ppc[g] = "idle"
  /\ pool' = IF Len(pool) < maxSize THEN Append(pool, conn) ELSE pool
  /\ pconn' = [pconn EXCEPT ![g] = conn]
  /\ ppc' = [ppc EXCEPT ![g] = "rel_dec"]
  /\ UNCHANGED <<maxSize, active, nextId, stale, pclient>>

\* Release: cp.mu.Lock(); cp.active--; cp.mu.Unlock() (both branches)
ReleaseDec(g) ==
  /\ ppc[g] = "rel_dec"
  /\ WriteActive(g, active - 1)
  /\ ppc' = [ppc EXCEPT ![g] = "rel_done"]
  /\ UNCHANGED <<maxSize, pool, nextId, pconn, pclient>>

\* The caller takes the result of the finished call.
PoolReturn(g) ==
  /\ ppc[g] \in {"acq_ok", "acq_fail", "rel_done"}
  /\ ppc' = [ppc EXCEPT ![g] = "idle"]
  /\ pconn' = [pconn EXCEPT ![g] = NoConn]
  /\ UNCHANGED <<maxSize, pool, active, nextId, stale, pclient>>

(***************************************************************************)
(* SpecPool: goroutines calling Acquire and Release concurrently; every    *)
(* handle obtained is released at most once.                               *)
(***************************************************************************)
NoRelease == [conn |-> NoConn, queued |-> 0]

ClientInit ==
  /\ held = [g \in Procs |-> {}]
  /\ calls = [g \in Procs |-> 0]
  /\ lastRel = NoRelease

ClientAcquire(g) ==
  /\ calls[g] < MaxCalls
  /\ \E c \in ClientNames : AcquireSelect(g, c)
  /\ calls' = [calls EXCEPT ![g] = @ + 1]
  /\ UNCHANGED <<held, lastRel, regVars, serverSide>>

ClientAcquireStep(g) ==
  /\ (AcquireCheck(g) \/ AcquireInc(g))
  /\ UNCHANGED <<clientVars, regVars, serverSide>>

ClientAcquired(g) ==
  /\ ppc[g] \in {"acq_ok", "acq_fail"}
  /\ held' = [held EXCEPT ![g] = IF ppc[g] = "acq_ok" THEN @ \cup {pconn[g]} ELSE @]
  /\ lastRel' = IF ppc[g] = "acq_ok" THEN NoRelease ELSE lastRel
  /\ PoolReturn(g)
  /\ UNCHANGED <<calls, regVars, serverSide>>

ClientRelease(g) ==
  /\ \E conn \in held[g] :
       /\ ReleaseSelect(g, conn)
       /\ held' = [held EXCEPT ![g] = @ \ {conn}]
       /\ lastRel' = [conn |-> conn, queued |-> Len(pool)]
  /\ UNCHANGED <<calls, regVars, serverSide>>

ClientReleaseStep(g) ==
  /\ ReleaseDec(g)
  /\ UNCHANGED <<clientVars, regVars, serverSide>>

ClientReleased(g) ==
  /\ ppc[g] = "rel_done"
  /\ PoolReturn(g)
  /\ UNCHANGED <<clientVars, regVars, serverSide>>

(***************************************************************************)
(* Tools (src/internal/tools/stream_text_processor.go, CalculatorTool).    *)
(* JSON values: an optional field is <<>> when missing or of the wrong     *)
(* type and <<v>> when present; a text is a sequence of one-character      *)
(* strings; an error is a tuple <<message, detail>>.                       *)
(***************************************************************************)
None == <<>>
Some(v) == <<v>>

\* The arguments value of a tools/call: kind "object", "null" (arguments
\* missing: json.Marshal(nil) = null) or "other" (a JSON value that is no
\* object).
Args(kind, text, operation, a, b, operands) ==
  [kind |-> kind, text |-> text, operation |-> operation,
   a |-> a, b |-> b, operands |-> operands]
NullArgs == Args("null", None, None, 0, 0, <<>>)
OtherArgs == Args("other", None, None, 0, 0, <<>>)
TextArgs(text, operation) == Args("object", text, operation, 0, 0, <<>>)
CalcArgs(operation, a, b, operands) == Args("object", None, operation, a, b, operands)

Ok(v) == [ok |-> TRUE, val |-> v]
Err(m) == [ok |-> FALSE, val |-> m]

IsSpace(c) == c \in {" ", "\n", "\t"}

\* A text is the sequence of its characters (runes).  len(s) of a Go string
\* is the number of bytes of its UTF-8 encoding: "U+00E9" (e with acute
\* accent) is one character of two bytes, every other character used here
\* is one byte.
TwoByteChars == {"U+00E9"}
ByteLen(s) == Len(s) + Cardinality({i \in 1..Len(s) : s[i] \in TwoByteChars})

\* A JSON value where a string is expected that is no string (a number, an
\* object): the type assertion .(string) fails on it.
NotAString == <<"not", "a string">>
IsString(v) == Len(v) = 1

\* strings.Fields: the maximal runs of non-space characters, in order.
\* FieldStarts are the positions where a run begins, FieldEnd(s, i) is
\* where the run that begins at i ends.
FieldStarts(s) ==
  {i \in 1..Len(s) : ~IsSpace(s[i]) /\ (i = 1 \/ IsSpace(s[i - 1]))}
FieldEnd(s, i) ==
  CHOOSE j \in i..Len(s) :
    /\ \A k \in i..j : ~IsSpace(s[k])
    /\ (j = Len(s) \/ IsSpace(s[j + 1]))
Fields(s) ==
  LET starts == FieldStarts(s)
      nth(k) == CHOOSE i \in starts : Cardinality({j \in starts : j < i}) = k - 1
  IN [k \in 1..Cardinality(starts) |-> SubSeq(s, nth(k), FieldEnd(s, nth(k)))]

\* len(strings.Split(s, "\n"))
LineCount(s) == 1 + Cardinality({i \in 1..Len(s) : s[i] = "\n"})

\* the rune-swapping loop of Execute, case "reverse"
Reverse(s) == [i \in 1..Len(s) |-> s[Len(s) + 1 - i]]

UpperChars == {"A", "B"}
LowerChars == {"a", "b", "U+00E9"}

\* parseArguments: the decoded {Text, Operation}, or an error.
\* Mutant: an operation that is missing is left empty.
parseArgumentsNoDefault(args) ==
  IF args.kind = "other"
    THEN Err(<<"invalid JSON format", "">>)
    ELSE LET text == IF IsString(args.text) THEN args.text[1] ELSE <<>>
             op == IF IsString(args.operation) THEN args.operation[1] ELSE ""
         IN IF text = <<>>
              THEN Err(<<"text parameter is required", "">>)
              ELSE Ok([Text |-> text, Operation |-> op])

parseArguments(args) ==
  IF args.kind = "other"
    THEN Err(<<"invalid JSON format", "">>)
    ELSE LET text == IF IsString(args.text) THEN args.text[1] ELSE <<>>
             op == IF IsString(args.operation) THEN args.operation[1] ELSE "analyze"
         IN IF text = <<>>
              THEN Err(<<"text parameter is required", "">>)
              ELSE Ok([Text |-> text, Operation |-> op])

TextOperations == {"split", "reverse", "count", "analyze"}

\* The value of result in StreamTextProcessor.Execute's switch.
TextResult(text, op) ==
  CASE op = "split" -> Fields(text)
    [] op = "reverse" -> Reverse(text)
    [] op = "count" ->
         [characters |-> ByteLen(text), words |-> Len(Fields(text)), lines |-> LineCount(text)]
    [] op = "analyze" ->
         [length |-> ByteLen(text), word_count |-> Len(Fields(text)),
          line_count |-> LineCount(text),
          has_uppercase |-> \E i \in 1..Len(text) : text[i] \in UpperChars,
          has_lowercase |-> \E i \in 1..Len(text) : text[i] \in LowerChars]

\* StreamTextProcessor.Execute
TextExecute(args) ==
  LET p == parseArguments(args) IN
  IF ~p.ok THEN p
  ELSE IF p.val.Operation \notin TextOperations
    THEN Err(<<"unsupported operation", p.val.Operation>>)
    ELSE Ok([original_text |-> p.val.Text,
             result |-> TextResult(p.val.Text, p.val.Operation),
             operation |-> p.val.Operation])

\* One call of the callback: callback(content, index).
Emission(content, index) == [content |-> content, index |-> index]

\* The index of the closing callback("处理完成！", 100).
FinalIndex == 100

\* The callbacks of ExecuteStream's switch for a successful Execute.
OperationEmissions(text, op) ==
  CASE op = "split" ->
         LET words == Fields(text) IN
           <<Emission(<<"splitting">>, 3)>>
           \o [i \in 1..Len(words) |-> Emission(<<"word", i, words[i]>>, 4 + (i - 1))]
           \o <<Emission(<<"split done">>, 4 + Len(words))>>
    [] op = "reverse" ->
         <<Emission(<<"reversing">>, 3), Emission(<<"reverse done">>, 4),
           Emission(<<"result", Reverse(text)>>, 5)>>
    [] op = "count" ->
         <<Emission(<<"counting">>, 3),
           Emission(<<"count done", ByteLen(text), Len(Fields(text)), LineCount(text)>>, 4)>>
    [] op = "analyze" ->
         <<Emission(<<"analyzing">>, 3), Emission(<<"analyze done">>, 4)>>

\* StreamTextProcessor.ExecuteStream: the callbacks it makes, in order.
StreamEmissions(args) ==
  LET p == parseArguments(args)
      r == TextExecute(args)
  IN IF ~p.ok THEN <<>>
     ELSE <<Emission(<<"start">>, 0),
            Emission(<<"input length", ByteLen(p.val.Text)>>, 1),
            Emission(<<"operation", p.val.Operation>>, 2)>>
          \o (IF ~r.ok
                THEN <<Emission(<<"failed", r.val>>, 3)>>
                ELSE OperationEmissions(p.val.Text, p.val.Operation)
                     \o <<Emission(<<"finished">>, FinalIndex)>>)

\* The cases of ExecuteStream's own switch on the operation.
StreamOperations == {"split", "reverse", "count", "analyze"}

\* Mutant: the switch of ExecuteStream has no case for "count".
TextExecuteStreamNoCount(args) ==
  LET p == parseArguments(args)
      r == TextExecute(args)
  IN IF ~p.ok THEN p
     ELSE IF ~r.ok THEN r
     ELSE IF p.val.Operation \notin StreamOperations \ {"count"}
       THEN Err(<<"unsupported operation", p.val.Operation>>)
     ELSE r

\* StreamTextProcessor.ExecuteStream: its return value.  parseArguments,
\* then stp.Execute, whose error it returns; json.Unmarshal of the bytes
\* Execute has marshalled does not fail; then its own switch, whose default
\* case fails, and the bytes of Execute.
TextExecuteStream(args) ==
  LET p == parseArguments(args)
      r == TextExecute(args)
  IN IF ~p.ok THEN p
     ELSE IF ~r.ok THEN r
     ELSE IF p.val.Operation \notin StreamOperations
       THEN Err(<<"unsupported operation", p.val.Operation>>)
     ELSE r

RECURSIVE GCD(_, _)
GCD(x, y) == IF y = 0 THEN x ELSE GCD(y, x % y)
Abs(x) == IF x < 0 THEN -x ELSE x
\* the float64 quotient a / b (b # 0) as a reduced fraction
Quot(a, b) ==
  LET g == GCD(Abs(a), Abs(b))
      s == IF b < 0 THEN -1 ELSE 1
  IN [num |-> s * (a \div g), den |-> s * (b \div g)]
Whole(x) == [num |-> x, den |-> 1]

\* CalculatorTool.Execute
\* Mutant: a and b are used even when the operands list has two elements.
CalcExecuteIgnoresOperands(args) ==
  IF args.kind = "other" THEN Err(<<"invalid arguments", "">>)
  ELSE
    LET a == args.a
        b == args.b
        op == IF args.operation # None THEN args.operation[1] ELSE ""
    IN CASE op = "add" -> Ok([result |-> Whole(a + b)])
         [] op = "subtract" -> Ok([result |-> Whole(a - b)])
         [] op = "multiply" -> Ok([result |-> Whole(a * b)])
         [] op = "divide" ->
              IF b = 0 THEN Err(<<"division by zero", "">>)
              ELSE Ok([result |-> Quot(a, b)])
         [] OTHER -> Err(<<"unsupported operation", op>>)

CalcExecute(args) ==
  IF args.kind = "other" THEN Err(<<"invalid arguments", "">>)
  ELSE
    LET two == Len(args.operands) >= 2
        a == IF two THEN args.operands[1] ELSE args.a
        b == IF two THEN args.operands[2] ELSE args.b
        op == IF args.operation # None THEN args.operation[1] ELSE ""
    IN CASE op = "add" -> Ok([result |-> Whole(a + b)])
         [] op = "subtract" -> Ok([result |-> Whole(a - b)])
         [] op = "multiply" -> Ok([result |-> Whole(a * b)])
         [] op = "divide" ->
              IF b = 0 THEN Err(<<"division by zero", "">>)
              ELSE Ok([result |-> Quot(a, b)])
         [] OTHER -> Err(<<"unsupported operation", op>>)

(***************************************************************************)
(* ToolManager: the categorised registry.                                  *)
(***************************************************************************)
CfgMaxTools == 2     \* largest max_tools a configuration carries
MaxAdminOps == 3     \* registry operations in one run

\* CategoryMath, CategoryAI, CategorySystem, CategoryUtility
Categories == {"math", "ai", "system", "utility"}

CategoryConfig(enabled, maxTools, rateLimit, timeout) ==
  [Enabled |-> enabled, MaxTools |-> maxTools, RateLimit |-> rateLimit, Timeout |-> timeout]
\* CategoryConfig{}
ZeroConfig == CategoryConfig(FALSE, 0, 0, 0)

\* a map with no key
EmptyMap == <<>>
MapPut(m, k, v) == [x \in (DOMAIN m) \cup {k} |-> IF x = k THEN v ELSE m[x]]

\* A tool: Name(), Category() and its implementation ("calculator",
\* "stream_text_processor", which alone implements StreamTool, or "plain").
Tool(name, category, impl) == [name |-> name, category |-> category, impl |-> impl]
CalculatorTool == Tool("calculator", "math", "calculator")
StreamTextProcessor == Tool("stream_text_processor", "utility", "stream_text_processor")

\* NewToolManager / initCategoriesFromConfig: a manager for each category of
\* the configuration that is a known one (others are skipped), and a
\* disabled manager with the zero config for every known category left.
NewToolManager(cfg) ==
  [c \in Categories |->
     IF c \in DOMAIN cfg
       THEN [tools |-> EmptyMap, enabled |-> cfg[c].Enabled, config |-> cfg[c]]
       ELSE [tools |-> EmptyMap, enabled |-> FALSE, config |-> ZeroConfig]]

NoError == <<>>
CategoryNotFound(c) == <<"category not found", c>>
CategoryDisabled(c) == <<"category is disabled", c>>
CategoryFull(c, max) == <<"category reached maximum tools limit", c, max>>

\* Mutant: the size limit is tested before the enabled flag.
RegisterToolErrorFullFirst(cs, tool) ==
  LET c == tool.category IN
  IF c \notin DOMAIN cs THEN CategoryNotFound(c)
  ELSE IF Cardinality(DOMAIN cs[c].tools) >= cs[c].config.MaxTools
    THEN CategoryFull(c, cs[c].config.MaxTools)
  ELSE IF ~cs[c].enabled THEN CategoryDisabled(c)
  ELSE NoError

\* Mutant: replacing a tool already registered under the name is let through
\* a full category.
RegisterToolErrorAllowReplace(cs, tool) ==
  LET c == tool.category IN
  IF c \notin DOMAIN cs THEN CategoryNotFound(c)
  ELSE IF ~cs[c].enabled THEN CategoryDisabled(c)
  ELSE IF /\ tool.name \notin DOMAIN cs[c].tools
          /\ Cardinality(DOMAIN cs[c].tools) >= cs[c].config.MaxTools
    THEN CategoryFull(c, cs[c].config.MaxTools)
  ELSE NoError

\* RegisterTool: the error it returns (NoError for nil).
RegisterToolError(cs, tool) ==
  LET c == tool.category IN
  IF c \notin DOMAIN cs THEN CategoryNotFound(c)
  ELSE IF ~cs[c].enabled THEN CategoryDisabled(c)
  ELSE IF Cardinality(DOMAIN cs[c].tools) >= cs[c].config.MaxTools
    THEN CategoryFull(c, cs[c].config.MaxTools)
  ELSE NoError

\* RegisterTool: tm.categories after the call.
RegisterToolCats(cs, tool) ==
  IF RegisterToolError(cs, tool) # NoError THEN cs
  ELSE [cs EXCEPT ![tool.category].tools = MapPut(@, tool.name, tool)]

\* RegisterAllTools: both registrations, their errors dropped.
RegisterAllTools(cs) ==
  RegisterToolCats(RegisterToolCats(cs, CalculatorTool), StreamTextProcessor)

\* Mutant: a category that is disabled loses its tools.
SetEnabledCatsDropTools(cs, c, b) ==
  IF c \notin DOMAIN cs THEN cs
  ELSE [cs EXCEPT ![c].enabled = b, ![c].tools = IF b THEN @ ELSE EmptyMap]

\* EnableCategory / DisableCategory
SetEnabledError(cs, c) == IF c \notin DOMAIN cs THEN CategoryNotFound(c) ELSE NoError
SetEnabledCats(cs, c, b) ==
  IF c \notin DOMAIN cs THEN cs ELSE [cs EXCEPT ![c].enabled = b]

\* UpdateCategoryConfig
UpdateConfigError(cs, c) == IF c \notin DOMAIN cs THEN CategoryNotFound(c) ELSE NoError
\* Mutant: the new configuration's Enabled value becomes the effective flag.
UpdateConfigCatsSetsFlag(cs, c, cfg) ==
  IF c \notin DOMAIN cs THEN cs
  ELSE [cs EXCEPT ![c].config = cfg, ![c].enabled = cfg.Enabled]

UpdateConfigCats(cs, c, cfg) ==
  IF c \notin DOMAIN cs THEN cs ELSE [cs EXCEPT ![c].config = cfg]

\* GetCategories: the stored configuration of every category.
GetCategories(cs) == [c \in DOMAIN cs |-> cs[c].config]

(***************************************************************************)
(* ToolManager lookups and calls.                                          *)
(***************************************************************************)
\* Mutant: the lookup loop does not skip a disabled category.
ResolveAny(cs, name) == {c \in DOMAIN cs : name \in DOMAIN cs[c].tools}

\* The enabled categories that hold a tool of this name: the loop of CallTool
\* ranges over the map tm.categories in an unspecified order and stops at
\* the first of them.
Resolve(cs, name) ==
  {c \in DOMAIN cs : cs[c].enabled /\ name \in DOMAIN cs[c].tools}

ToolNotFound(name) == <<"tool not found", name>>

\* tool.Execute
ToolExecute(tool, args) ==
  CASE tool.impl = "calculator" -> CalcExecute(args)
    [] tool.impl = "stream_text_processor" -> TextExecute(args)
    [] OTHER -> Ok([output_of |-> tool.name])

\* tool.(StreamTool)
SupportsStream(tool) == tool.impl = "stream_text_processor"

\* &ToolCallResult{Content: [{Type: "text", Text: string(result)}]}
ToolCallResult(r) ==
  IF r.ok THEN Ok([content |-> <<[type |-> "text", text |-> r.val]>>]) ELSE r

\* CallTool: the results it can return (one per category the name resolves to).
CallTool(cs, name, args) ==
  IF Resolve(cs, name) = {} THEN {Err(ToolNotFound(name))}
  ELSE {ToolCallResult(ToolExecute(cs[c].tools[name], args)) : c \in Resolve(cs, name)}

\* GetTools: the ToolInfo of every tool of every enabled category.
ToolInfo(tool) == [name |-> tool.name, category |-> tool.category, enabled |-> TRUE]
GetTools(cs) ==
  UNION {{ToolInfo(cs[c].tools[n]) : n \in DOMAIN cs[c].tools} :
           c \in {d \in DOMAIN cs : cs[d].enabled}}

\* Mutant: the listing of one category does not look at the enabled flag.
GetToolsByCategoryAll(cs, c) ==
  IF c \notin DOMAIN cs THEN {}
  ELSE {[name |-> cs[c].tools[n].name, category |-> c, enabled |-> TRUE] :
          n \in DOMAIN cs[c].tools}

\* GetToolsByCategory: empty for an unknown or a disabled category.
GetToolsByCategory(cs, c) ==
  IF c \notin DOMAIN cs \/ ~cs[c].enabled THEN {}
  ELSE {[name |-> cs[c].tools[n].name, category |-> c, enabled |-> TRUE] :
          n \in DOMAIN cs[c].tools}

\* The tools the lookup loop of CallTool / CallToolStream can end with
\* (none: tool == nil).
Lookup(cs, name) == {cs[c].tools[name] : c \in Resolve(cs, name)}

\* One run of a call: what it returns, the tools whose Execute or
\* ExecuteStream it called, and the callbacks made.
Run(res, invoked, emits) == [res |-> res, invoked |-> invoked, emits |-> emits]

\* Mutant: a call on an unknown name runs a default tool.
CallToolRunsDefault(cs, name, args) ==
  IF Lookup(cs, name) = {}
    THEN {Run(ToolCallResult(CalcExecute(args)), <<CalculatorTool>>, <<>>)}
    ELSE {Run(ToolCallResult(ToolExecute(t, args)), <<t>>, <<>>) : t \in Lookup(cs, name)}

\* CallTool: its runs.
CallToolRuns(cs, name, args) ==
  IF Lookup(cs, name) = {}
    THEN {Run(Err(ToolNotFound(name)), <<>>, <<>>)}
    ELSE {Run(ToolCallResult(ToolExecute(t, args)), <<t>>, <<>>) : t \in Lookup(cs, name)}

\* Mutant: the fallback runs the tool through the callback path as well.
CallToolStreamRunsEcho(cs, name, args) ==
  IF Lookup(cs, name) = {}
    THEN {Run(Err(ToolNotFound(name)), <<>>, <<>>)}
    ELSE UNION {IF ~SupportsStream(t)
                  THEN {Run(r.res, r.invoked, <<Emission(<<"result">>, 0)>>) :
                          r \in CallToolRuns(cs, name, args)}
                  ELSE {Run(ToolCallResult(TextExecuteStream(args)), <<t>>,
                            StreamEmissions(args))} :
                t \in Lookup(cs, name)}

\* CallToolStream: its runs.  A tool that is no StreamTool is handed to
\* CallTool, which looks the name up again.
CallToolStreamRuns(cs, name, args) ==
  IF Lookup(cs, name) = {}
    THEN {Run(Err(ToolNotFound(name)), <<>>, <<>>)}
    ELSE UNION {IF ~SupportsStream(t)
                  THEN CallToolRuns(cs, name, args)
                  ELSE {Run(ToolCallResult(TextExecuteStream(args)), <<t>>,
                            StreamEmissions(args))} :
                t \in Lookup(cs, name)}

\* Mutant: the category timeout replaces the caller's deadline.
EffectiveDeadlineOverride(parent, now, timeout) ==
  IF timeout > 0 THEN Some(now + timeout) ELSE parent

\* The deadline of the context the tool is called with: the caller's (None:
\* no deadline) when config.Timeout is not positive, else that of
\* context.WithTimeout(ctx, Timeout), which keeps the parent's deadline when
\* it is the earlier one.
EffectiveDeadline(parent, now, timeout) ==
  IF timeout > 0
    THEN (IF parent # None /\ parent[1] < now + timeout THEN parent ELSE Some(now + timeout))
    ELSE parent

\* The time.Sleep calls of ExecuteStream, in milliseconds.
StreamSleep(args) ==
  LET p == parseArguments(args) IN
  IF ~p.ok THEN 0
  ELSE IF ~TextExecute(args).ok THEN 300
  ELSE IF p.val.Operation = "split" THEN 300 + 30 * Len(Fields(p.val.Text))
  ELSE 500

\* What Execute / ExecuteStream hands back given the deadline of its ctx and
\* the time it returns: neither registered tool reads ctx.
ToolOutcome(res, deadline, returned) == res

(***************************************************************************)
(* Server: requests and responses.                                         *)
(***************************************************************************)
\* A request body: kind "readErr" (io.ReadAll fails), "badJSON", or "json"
\* with the optional fields method (a string), id (a number, written as its
\* literal) and params (an object).
\* Further kinds: "nonObject" is valid JSON that is no object (an array, a
\* string, a number); "trailing" is a JSON object followed by bytes that are
\* no JSON, its fields being those of the object.
Req(kind, method, id, params) ==
  [kind |-> kind, method |-> method, id |-> id, params |-> params]
\* params of a request: optional name, the arguments, optional
\* clientInfo.name, optional uri
Params(name, arguments, client, uri) ==
  [name |-> name, arguments |-> arguments, client |-> client, uri |-> uri]
NoReq == Req("none", None, None, None)

\* encoding/json: a number decoded into an interface{} is a float64, so an
\* integer that no float64 holds becomes the nearest one that does; numbers
\* are written as their JSON literals.
Float64Literal(n) == IF n = "9007199254740993" THEN "9007199254740992" ELSE n

\* The request as decoded into map[string]interface{}.
Decoded(b) == [b EXCEPT !.id = IF @ = None THEN None ELSE Some(Float64Literal(@[1]))]

\* json.Unmarshal(bodyBytes, &req) into a map: the whole body is one JSON
\* object (or null, which leaves req nil: a "json" body with no field)
UnmarshalAccepts(b) == b.kind = "json"

\* json.NewDecoder(...).Decode(&req) into a map: the first JSON value of the
\* body is an object; what follows that value is not read
DecoderAccepts(b) == b.kind \in {"json", "trailing"}

\* extractClientInfo (the Name; Version is not read by the pool)
extractClientInfo(req) ==
  IF req.params # None /\ req.params[1].client # None
    THEN req.params[1].client[1] ELSE "unknown"

Response(status, kind, code, msg, result, id) ==
  [status |-> status, kind |-> kind, code |-> code, msg |-> msg,
   result |-> result, id |-> id]
NoResp == Response(0, "none", 0, <<>>, None, None)
\* http.Error(w, text, status)
HttpError(text, status) == Response(status, "text", 0, <<text>>, None, None)
\* sendErrorResponse: HTTP 400, {jsonrpc, error: {code, message}, id: null}
sendErrorResponse(message, code) == Response(400, "error", code, message, None, None)
\* the success response of handleMCPRequest: {jsonrpc, result, id: req["id"]}
SuccessResponse(result, id) == Response(200, "result", 0, <<>>, Some(result), id)
\* the event-stream response of handleMCPStreamRequest
StreamResponse == Response(200, "sse", 0, <<>>, None, None)

\* Mutant: the error of CallTool is replaced by one of the handler's own.
handleToolsCallWrapped(cs, req) ==
  IF req.params = None THEN {Err(<<"invalid params", "">>)}
  ELSE IF req.params[1].name = None THEN {Err(<<"missing or invalid tool name", "">>)}
  ELSE {IF x.ok THEN x ELSE Err(<<"tool call failed", "">>) :
          x \in CallTool(cs, req.params[1].name[1], req.params[1].arguments)}

\* handleToolsCall: the results it can return
handleToolsCall(cs, req) ==
  IF req.params = None THEN {Err(<<"invalid params", "">>)}
  ELSE IF req.params[1].name = None THEN {Err(<<"missing or invalid tool name", "">>)}
  ELSE CallTool(cs, req.params[1].name[1], req.params[1].arguments)

\* handleResourcesRead / readResource
handleResourcesRead(req) ==
  IF req.params = None THEN Err(<<"invalid params", "">>)
  ELSE IF req.params[1].uri = None THEN Err(<<"missing or invalid uri", "">>)
  ELSE IF req.params[1].uri[1] = "file:///example.txt"
    THEN Ok([contents |-> <<"file:///example.txt", "text/plain">>])
  ELSE Err(<<"failed to read resource", req.params[1].uri[1]>>)

\* handlePromptsGet / getPrompt
handlePromptsGet(req) ==
  IF req.params = None THEN Err(<<"invalid params", "">>)
  ELSE IF req.params[1].name = None THEN Err(<<"missing or invalid prompt name", "">>)
  ELSE IF req.params[1].name[1] = "example_prompt"
    THEN Ok([description |-> "example_prompt"])
  ELSE Err(<<"prompt not found", req.params[1].name[1]>>)

\* A dispatch that answers every method it does not know with an empty result.
handleMCPOperationLenient(cs, method, req) ==
  CASE method = "initialize" -> {Ok(<<"protocolVersion", "serverInfo", "capabilities">>)}
    [] method = "tools/list" -> {Ok([tools |-> {t.name : t \in GetTools(cs)}])}
    [] method = "tools/call" -> handleToolsCall(cs, req)
    [] method = "resources/read" -> {handleResourcesRead(req)}
    [] method = "prompts/get" -> {handlePromptsGet(req)}
    [] OTHER -> {Ok(<<"null">>)}

\* handleMCPOperation: the results it can return
handleMCPOperation(cs, method, req) ==
  CASE method = "initialize" -> {Ok(<<"protocolVersion", "serverInfo", "capabilities">>)}
    [] method = "notifications/initialized" -> {Ok(<<"null">>)}
    [] method = "tools/list" -> {Ok([tools |-> {t.name : t \in GetTools(cs)}])}
    [] method = "tools/call" -> handleToolsCall(cs, req)
    [] method = "resources/list" -> {Ok([resources |-> {}])}
    [] method = "prompts/list" -> {Ok([prompts |-> {}])}
    [] method = "roots/list" -> {Ok([roots |-> {}])}
    [] method = "resources/read" -> {handleResourcesRead(req)}
    [] method = "prompts/get" -> {handlePromptsGet(req)}
    [] OTHER -> {Err(<<"unsupported method", method>>)}

\* Stream events (protocol.go: StreamEventToolCall, ...Content, ...Done, ...Error)
StartedEvent(tool) == [kind |-> "tool/call", tool |-> tool, status |-> "started"]
ContentEvent(em) ==
  [kind |-> "content", type |-> "text", content |-> em.content, index |-> em.index]
DoneEvent(result) == [kind |-> "done", result |-> result]
ErrorEvent(message) == [kind |-> "error", message |-> message]
TerminalKinds == {"done", "error"}

(***************************************************************************)
(* Server: Stop and the handlers of /mcp and /mcp/stream.  A request r is  *)
(* served by its own goroutine r.                                          *)
(***************************************************************************)
NoResult == Err(<<"none", "">>)

\* No registry call in progress.
NoCall == [pc |-> "idle", op |-> "none", arg |-> <<>>, tool |-> <<>>, timeout |-> 0,
           depth |-> 0, after |-> <<>>, out |-> NoResult, emits |-> <<>>,
           before |-> <<>>, post |-> <<>>]

\* The server before any request, with no stop signal.
ServerInit ==
  /\ rlocks = [g \in Procs |-> 0]
  /\ wwait = {}
  /\ tcall = [g \in Procs |-> NoCall]
  /\ rpc = [r \in Procs |-> "new"]
  /\ endpoint = [r \in Procs |-> "none"]
  /\ rbody = [r \in Procs |-> NoReq]
  /\ rreq = [r \in Procs |-> NoReq]
  /\ rconn = [r \in Procs |-> NoConn]
  /\ resp = [r \in Procs |-> NoResp]
  /\ activeOps = 0
  /\ shuttingDown = FALSE
  /\ stopPc = "running"
  /\ waitDone = FALSE
  /\ forced = FALSE
  /\ sent = [r \in Procs |-> <<>>]
  /\ wire = [r \in Procs |-> <<>>]
  /\ connAlive = [r \in Procs |-> TRUE]
  /\ emitq = [r \in Procs |-> <<>>]
  /\ emitted = [r \in Procs |-> <<>>]
  /\ sres = [r \in Procs |-> NoResult]

\* Mutant: the admission check does not look at the flag.
isShuttingDownNever == FALSE

\* isShuttingDown: s.shuttingDown read under shutdownMu.RLock()
isShuttingDown == shuttingDown

\* Stop: s.shuttingDown = true under shutdownMu.Lock(); the goroutine that
\* waits on activeOps is started and Stop enters its select.
StopSetFlag ==
  /\ stopPc = "running"
  /\ shuttingDown' = TRUE
  /\ stopPc' = "waiting"
  /\ UNCHANGED <<waitDone, forced, poolVars, clientVars, regVars, lockVars, srvVars, strVars>>

\* Stop's goroutine: s.activeOps.Wait() returns when the counter is zero,
\* then close(done).
StopWaiter ==
  /\ stopPc # "running"
  /\ ~waitDone
  /\ activeOps = 0
  /\ waitDone' = TRUE
  /\ UNCHANGED <<shuttingDown, stopPc, forced, poolVars, clientVars, regVars, lockVars, srvVars, strVars>>

\* Stop's select, case <-done; then httpSrv.Shutdown is called.
StopSelectDone ==
  /\ stopPc = "waiting"
  /\ waitDone
  /\ stopPc' = "closing"
  /\ UNCHANGED <<shuttingDown, waitDone, forced, poolVars, clientVars, regVars, lockVars, srvVars, strVars>>

\* Mutant: the select has no time.After case.
StopTimeoutNever == FALSE /\ UNCHANGED vars

\* Stop's select, case <-time.After(30 * time.Second); then httpSrv.Shutdown
\* is called.
StopTimeout ==
  /\ stopPc = "waiting"
  /\ stopPc' = "closing"
  /\ forced' = TRUE
  /\ UNCHANGED <<shuttingDown, waitDone, poolVars, clientVars, regVars, lockVars, srvVars, strVars>>

Endpoints == {"mcp", "stream"}
HttpMethods == {"POST", "GET"}

\* A request reaches its handler (mux.HandleFunc).
Arrive(r, eps) ==
  /\ rpc[r] = "new"
  /\ \E ep \in eps : endpoint' = [endpoint EXCEPT ![r] = ep]
  /\ rpc' = [rpc EXCEPT ![r] = "check"]
  /\ UNCHANGED <<rbody, rreq, rconn, resp, activeOps, stopVars, strVars, poolVars, clientVars, regVars, lockVars>>

\* handleMCPRequest / handleMCPStreamRequest: the isShuttingDown test and the
\* r.Method test.
CheckAdmission(r) ==
  /\ rpc[r] = "check"
  /\ endpoint[r] \in Endpoints
  /\ \E m \in HttpMethods :
       IF isShuttingDown
         THEN /\ resp' = [resp EXCEPT ![r] =
                           HttpError("Service unavailable - server is shutting down", 503)]
              /\ rpc' = [rpc EXCEPT ![r] = "done"]
         ELSE IF m # "POST"
           THEN /\ resp' = [resp EXCEPT ![r] = HttpError("Method not allowed", 405)]
                /\ rpc' = [rpc EXCEPT ![r] = "done"]
           ELSE /\ resp' = resp
                /\ rpc' = [rpc EXCEPT ![r] = "admitted"]
  /\ UNCHANGED <<endpoint, rbody, rreq, rconn, activeOps, stopVars, strVars, poolVars, clientVars, regVars, lockVars>>

\* s.activeOps.Add(1); defer s.activeOps.Done()  (and, on /mcp/stream, the
\* event-stream response headers)
AddActive(r) ==
  /\ rpc[r] = "admitted"
  /\ activeOps' = activeOps + 1
  /\ rpc' = [rpc EXCEPT ![r] = "body"]
  /\ resp' = [resp EXCEPT ![r] = IF endpoint[r] = "stream" THEN StreamResponse ELSE @]
  /\ UNCHANGED <<endpoint, rbody, rreq, rconn, stopVars, strVars, poolVars, clientVars, regVars, lockVars>>

\* Mutant: a return that runs no deferred call.
HandlerReturnNoDefer(r, response) ==
  /\ resp' = [resp EXCEPT ![r] = response]
  /\ rpc' = [rpc EXCEPT ![r] = "done"]

\* A return of the handler taken before a handle is held: the response is
\* written and the deferred activeOps.Done() is what is left to run.
HandlerReturn(r, response) ==
  /\ resp' = [resp EXCEPT ![r] = response]
  /\ rpc' = [rpc EXCEPT ![r] = "finish"]

\* handleMCPRequest: io.ReadAll, json Decode, req["method"].(string)
MCPReadBody(r, bodies) ==
  /\ rpc[r] = "body"
  /\ endpoint[r] = "mcp"
  /\ \E b \in bodies :
       /\ rbody' = [rbody EXCEPT ![r] = b]
       /\ CASE b.kind = "readErr" ->
              /\ HandlerReturn(r, sendErrorResponse(<<"Failed to read request body">>, -32700))
              /\ rreq' = rreq
         [] b.kind # "readErr" /\ ~DecoderAccepts(b) ->
              /\ HandlerReturn(r, sendErrorResponse(<<"Invalid JSON">>, -32700))
              /\ rreq' = rreq
         [] DecoderAccepts(b) /\ b.method = None ->
              /\ HandlerReturn(r, sendErrorResponse(<<"Missing or invalid method">>, -32600))
              /\ rreq' = rreq
         [] OTHER ->
              /\ rreq' = [rreq EXCEPT ![r] = Decoded(b)]
              /\ rpc' = [rpc EXCEPT ![r] = "acquire"]
              /\ resp' = resp
  /\ UNCHANGED <<endpoint, rconn, activeOps, stopVars, strVars, poolVars, clientVars, regVars, lockVars>>

\* handleMCPRequest: s.connPool.Acquire(extractClientInfo(req)) is entered
MCPAcquire(r) ==
  /\ rpc[r] = "acquire"
  /\ AcquireSelect(r, extractClientInfo(rreq[r]))
  /\ rpc' = [rpc EXCEPT ![r] = "acquiring"]
  /\ UNCHANGED <<endpoint, rbody, rreq, rconn, resp, activeOps, stopVars, strVars, clientVars, regVars, lockVars>>

\* ... Acquire runs
MCPAcquireStep(r) ==
  /\ rpc[r] = "acquiring"
  /\ (AcquireCheck(r) \/ AcquireInc(r))
  /\ UNCHANGED <<srvVars, stopVars, strVars, clientVars, regVars, lockVars>>

\* ... Acquire returns: on an error the -32000 response, else
\* defer s.connPool.Release(conn)
MCPAcquired(r) ==
  /\ rpc[r] = "acquiring"
  /\ ppc[r] \in {"acq_ok", "acq_fail"}
  /\ PoolReturn(r)
  /\ IF ppc[r] = "acq_fail"
       THEN /\ HandlerReturn(r, sendErrorResponse(<<"Connection limit exceeded", maxSize>>, -32000))
            /\ rconn' = rconn
       ELSE /\ rconn' = [rconn EXCEPT ![r] = pconn[r]]
            /\ rpc' = [rpc EXCEPT ![r] = "dispatch"]
            /\ resp' = resp
  /\ UNCHANGED <<endpoint, rbody, rreq, activeOps, stopVars, strVars, clientVars, regVars, lockVars>>

\* Mutant: the return taken on an error of handleMCPOperation runs no Release.
MCPDispatchLeaks(r) ==
  /\ rpc[r] = "dispatch"
  /\ \E res \in handleMCPOperation(cats, rreq[r].method[1], rreq[r]) :
       /\ resp' = [resp EXCEPT ![r] =
                     IF res.ok THEN SuccessResponse(res.val, rreq[r].id)
                     ELSE sendErrorResponse(res.val, -32603)]
       /\ rpc' = [rpc EXCEPT ![r] = IF res.ok THEN "release" ELSE "finish"]
  /\ UNCHANGED <<endpoint, rbody, rreq, rconn, activeOps, stopVars, strVars, poolVars, clientVars, regVars, lockVars>>

\* handleMCPRequest: handleMCPOperation and the response written from its
\* result; the deferred Release is what runs next.
MCPDispatch(r) ==
  /\ rpc[r] = "dispatch"
  /\ \E res \in handleMCPOperation(cats, rreq[r].method[1], rreq[r]) :
       resp' = [resp EXCEPT ![r] =
                  IF res.ok THEN SuccessResponse(res.val, rreq[r].id)
                  ELSE sendErrorResponse(res.val, -32603)]
  /\ rpc' = [rpc EXCEPT ![r] = "release"]
  /\ UNCHANGED <<endpoint, rbody, rreq, rconn, activeOps, stopVars, strVars, poolVars, clientVars, regVars, lockVars>>

\* the deferred s.connPool.Release(conn) is entered
MCPRelease(r) ==
  /\ rpc[r] = "release"
  /\ ReleaseSelect(r, rconn[r])
  /\ rpc' = [rpc EXCEPT ![r] = "releasing"]
  /\ UNCHANGED <<endpoint, rbody, rreq, rconn, resp, activeOps, stopVars, strVars, clientVars, regVars, lockVars>>

\* ... Release runs
MCPReleaseStep(r) ==
  /\ rpc[r] = "releasing"
  /\ ReleaseDec(r)
  /\ UNCHANGED <<srvVars, stopVars, strVars, clientVars, regVars, lockVars>>

\* ... Release returns; the deferred activeOps.Done() is what is left
MCPReleased(r) ==
  /\ rpc[r] = "releasing"
  /\ ppc[r] = "rel_done"
  /\ PoolReturn(r)
  /\ rconn' = [rconn EXCEPT ![r] = NoConn]
  /\ rpc' = [rpc EXCEPT ![r] = "finish"]
  /\ UNCHANGED <<endpoint, rbody, rreq, resp, activeOps, stopVars, strVars, clientVars, regVars, lockVars>>

\* the deferred s.activeOps.Done(); the handler has returned
Done(r) ==
  /\ rpc[r] = "finish"
  /\ activeOps' = activeOps - 1
  /\ rpc' = [rpc EXCEPT ![r] = "done"]
  /\ UNCHANGED <<endpoint, rbody, rreq, rconn, resp, stopVars, strVars, poolVars, clientVars, regVars, lockVars>>

\* sendStreamEvent, once per event of evs: the frame is written to w; when
\* w.Write fails the error is logged and the frame is lost.  (json.Marshal
\* of these payloads cannot fail.)
sendStreamEvent(r, evs) ==
  /\ sent' = [sent EXCEPT ![r] = @ \o evs]
  /\ wire' = [wire EXCEPT ![r] = IF connAlive[r] THEN @ \o evs ELSE @]

\* An error path that writes its error event twice.
sendStreamErrorTwice(r, message) ==
  sendStreamEvent(r, <<ErrorEvent(message), ErrorEvent(message)>>)

\* sendStreamError
sendStreamError(r, message) == sendStreamEvent(r, <<ErrorEvent(message)>>)

\* Mutant: the started event is not sent.
StartEventsMissing(tool) == <<>>

\* handleStreamToolsCall: the events sent before CallToolStream is called.
StartEvents(tool) == <<StartedEvent(tool)>>

\* Mutant: the error branch does not return and the done event follows.
TerminalEventsNoReturn(res) ==
  IF res.ok THEN <<DoneEvent(res.val)>> ELSE <<ErrorEvent(res.val), DoneEvent(res.val)>>

\* handleStreamToolsCall: the events sent after CallToolStream has returned.
TerminalEvents(res) ==
  IF res.ok THEN <<DoneEvent(res.val)>> ELSE <<ErrorEvent(res.val)>>

\* handleMCPStreamRequest up to the call of CallToolStream: io.ReadAll,
\* json.Unmarshal, the method tests, and handleStreamToolsCall's tests of
\* params and name followed by the started event.
StreamReadBody(r, bodies) ==
  /\ rpc[r] = "body"
  /\ endpoint[r] = "stream"
  /\ \E b \in bodies :
       LET fail(message) ==
             /\ sendStreamError(r, message)
             /\ rpc' = [rpc EXCEPT ![r] = "finish"]
             /\ rreq' = rreq
       IN /\ rbody' = [rbody EXCEPT ![r] = b]
          /\ CASE b.kind = "readErr" -> fail(<<"Failed to read request body">>)
            [] b.kind # "readErr" /\ ~UnmarshalAccepts(b) -> fail(<<"Invalid JSON">>)
            [] b.kind = "json" /\ b.method = None -> fail(<<"Missing or invalid method">>)
            [] b.kind = "json" /\ b.method # None /\ b.method # Some("tools/call") ->
                 fail(<<"Streaming only supported for tools/call method">>)
            [] b.kind = "json" /\ b.method = Some("tools/call") /\ b.params = None ->
                 fail(<<"Invalid params">>)
            [] /\ b.kind = "json" /\ b.method = Some("tools/call")
               /\ b.params # None /\ b.params[1].name = None ->
                 fail(<<"Missing or invalid tool name">>)
            [] OTHER ->
                 /\ sendStreamEvent(r, StartEvents(b.params[1].name[1]))
                 /\ rreq' = [rreq EXCEPT ![r] = Decoded(b)]
                 /\ rpc' = [rpc EXCEPT ![r] = "call"]
  /\ UNCHANGED <<endpoint, rconn, resp, activeOps, stopVars, connAlive, emitq, emitted, sres,
                 poolVars, clientVars, regVars, lockVars>>

\* CallToolStream up to the call of the tool: the lookup; for a tool that is
\* no StreamTool the fallback to CallTool, whose result ends the call; for a
\* StreamTool, ExecuteStream is entered.
StreamCall(r) ==
  /\ rpc[r] = "call"
  /\ LET name == rreq[r].params[1].name[1]
         args == rreq[r].params[1].arguments
         finish(res) ==
           /\ sendStreamEvent(r, TerminalEvents(res))
           /\ rpc' = [rpc EXCEPT ![r] = "finish"]
           /\ UNCHANGED <<emitq, sres>>
     IN IF Resolve(cats, name) = {}
          THEN finish(Err(ToolNotFound(name)))
          ELSE \E c \in Resolve(cats, name) :
                 IF ~SupportsStream(cats[c].tools[name])
                   THEN \E res \in CallTool(cats, name, args) : finish(res)
                   ELSE /\ emitq' = [emitq EXCEPT ![r] = StreamEmissions(args)]
                        /\ sres' = [sres EXCEPT ![r] = ToolCallResult(TextExecuteStream(args))]
                        /\ rpc' = [rpc EXCEPT ![r] = "emitting"]
                        /\ UNCHANGED <<sent, wire>>
  /\ UNCHANGED <<endpoint, rbody, rreq, rconn, resp, activeOps, stopVars, connAlive, emitted,
                 poolVars, clientVars, regVars, lockVars>>

\* ExecuteStream makes its next callback; the callback of
\* handleStreamToolsCall sends it as a content event.
StreamEmit(r) ==
  /\ rpc[r] = "emitting"
  /\ emitq[r] # <<>>
  /\ emitted' = [emitted EXCEPT ![r] = Append(@, Head(emitq[r]))]
  /\ sendStreamEvent(r, <<ContentEvent(Head(emitq[r]))>>)
  /\ emitq' = [emitq EXCEPT ![r] = Tail(@)]
  /\ UNCHANGED <<srvVars, stopVars, connAlive, sres, poolVars, clientVars, regVars, lockVars>>

\* ExecuteStream and CallToolStream return; handleStreamToolsCall sends the
\* error or the done event.
StreamEnd(r) ==
  /\ rpc[r] = "emitting"
  /\ emitq[r] = <<>>
  /\ sendStreamEvent(r, TerminalEvents(sres[r]))
  /\ rpc' = [rpc EXCEPT ![r] = "finish"]
  /\ UNCHANGED <<endpoint, rbody, rreq, rconn, resp, activeOps, stopVars, connAlive, emitq, emitted,
                 sres, poolVars, clientVars, regVars, lockVars>>

\* The client of a streaming request goes away: from now on w.Write fails.
ClientDisconnect(r) ==
  /\ endpoint[r] = "stream"
  /\ rpc[r] \notin {"new", "done"}
  /\ connAlive[r]
  /\ connAlive' = [connAlive EXCEPT ![r] = FALSE]
  /\ UNCHANGED <<srvVars, stopVars, sent, wire, emitq, emitted, sres, poolVars, clientVars, regVars, lockVars>>

(***************************************************************************)
(* SpecRegistry: the registry under RegisterTool, EnableCategory,          *)
(* DisableCategory and UpdateCategoryConfig, each run under tm.mu.Lock().  *)
(***************************************************************************)
\* Category names handed to the operations: the known ones and a foreign one.
CategoryNames == Categories \cup {"legacy"}
ConfigValues ==
  {CategoryConfig(e, m, 0, 0) : e \in BOOLEAN, m \in 0..CfgMaxTools}
ToolUniverse ==
  {CalculatorTool, StreamTextProcessor,
   Tool("echo", "math", "plain"), Tool("sum", "math", "plain"),
   Tool("avg", "math", "plain"),
   Tool("calculator", "utility", "plain"), Tool("probe", "legacy", "plain")}
\* Configurations the manager is constructed from.
StartConfigs ==
  {[c \in {"math", "utility", "legacy"} |-> CategoryConfig(TRUE, m, 0, 0)] : m \in 0..CfgMaxTools}
  \cup {[c \in {"math"} |-> CategoryConfig(FALSE, CfgMaxTools, 0, 0)]}

NoOp == [op |-> "none", arg |-> <<>>, err |-> NoError]

RegInit ==
  /\ \E cfg \in StartConfigs : cats = NewToolManager(cfg)
  /\ last = NoOp
  /\ nops = 0
RegIdle ==
  /\ cats = NewToolManager(EmptyMap)
  /\ last = NoOp
  /\ nops = 0

RegisterTool(tool) ==
  /\ nops < MaxAdminOps
  /\ cats' = RegisterToolCats(cats, tool)
  /\ last' = [op |-> "RegisterTool", arg |-> <<tool>>, err |-> RegisterToolError(cats, tool)]
  /\ nops' = nops + 1
  /\ UNCHANGED <<poolVars, clientVars, serverSide>>

EnableCategory(c) ==
  /\ nops < MaxAdminOps
  /\ cats' = SetEnabledCats(cats, c, TRUE)
  /\ last' = [op |-> "EnableCategory", arg |-> <<c>>, err |-> SetEnabledError(cats, c)]
  /\ nops' = nops + 1
  /\ UNCHANGED <<poolVars, clientVars, serverSide>>

DisableCategory(c) ==
  /\ nops < MaxAdminOps
  /\ cats' = SetEnabledCats(cats, c, FALSE)
  /\ last' = [op |-> "DisableCategory", arg |-> <<c>>, err |-> SetEnabledError(cats, c)]
  /\ nops' = nops + 1
  /\ UNCHANGED <<poolVars, clientVars, serverSide>>

UpdateCategoryConfig(c, cfg) ==
  /\ nops < MaxAdminOps
  /\ cats' = UpdateConfigCats(cats, c, cfg)
  /\ last' = [op |-> "UpdateCategoryConfig", arg |-> <<c, cfg>>, err |-> UpdateConfigError(cats, c)]
  /\ nops' = nops + 1
  /\ UNCHANGED <<poolVars, clientVars, serverSide>>

InitRegistry == RegInit /\ PoolInit /\ ClientInit /\ ServerInit

NextRegistry ==
  \/ \E t \in ToolUniverse : RegisterTool(t)
  \/ \E c \in CategoryNames : EnableCategory(c)
  \/ \E c \in CategoryNames : DisableCategory(c)
  \/ \E c \in CategoryNames, cfg \in ConfigValues : UpdateCategoryConfig(c, cfg)

SpecRegistry == InitRegistry /\ [][NextRegistry]_vars

\* The step just taken was a RegisterTool call.
RegisterStep == last'.op = "RegisterTool" /\ nops' = nops + 1

\* C9: RegisterTool fails with CategoryNotFound for an unknown category, else
\* with CategoryDisabled for a disabled one, else with CategoryFull when the
\* category holds its maximum tool count; a failure leaves the registry as it
\* was and a success sets exactly the entry (category, name) to the tool.
C9_RegisterToolContract ==
  [][RegisterStep =>
       LET t == last'.arg[1]
           c == t.category
           e == last'.err
       IN /\ (c \notin Categories) => e = CategoryNotFound(c)
          /\ (c \in Categories /\ ~cats[c].enabled) => e = CategoryDisabled(c)
          /\ (/\ c \in Categories /\ cats[c].enabled
              /\ Cardinality(DOMAIN cats[c].tools) >= cats[c].config.MaxTools)
               => e = CategoryFull(c, cats[c].config.MaxTools)
          /\ e # NoError => cats' = cats
          /\ e = NoError =>
               /\ \A d \in Categories \ {c} : cats'[d] = cats[d]
               /\ cats'[c].enabled = cats[c].enabled
               /\ cats'[c].config = cats[c].config
               /\ DOMAIN cats'[c].tools = DOMAIN cats[c].tools \cup {t.name}
               /\ cats'[c].tools[t.name] = t
               /\ \A n \in DOMAIN cats[c].tools \ {t.name} :
                     cats'[c].tools[n] = cats[c].tools[n]
  ]_vars

\* C9 witness: a registration into a category that is both disabled and full
\* was refused as disabled.
C9_Witness ==
  /\ last.op = "RegisterTool"
  /\ last.arg[1].category \in Categories
  /\ last.err = CategoryDisabled(last.arg[1].category)
  /\ LET m == cats[last.arg[1].category] IN
       /\ DOMAIN m.tools # {}
       /\ Cardinality(DOMAIN m.tools) >= m.config.MaxTools

\* C10: in an enabled category with maximum tool count M, RegisterTool fails
\* with CategoryFull when the category holds M tools, also when the name is
\* already registered there, and succeeds when it holds fewer than M.
C10_FullOrOneFewer ==
  [][RegisterStep =>
       LET t == last'.arg[1]
           c == t.category
       IN (c \in Categories /\ cats[c].enabled) =>
            LET n == Cardinality(DOMAIN cats[c].tools)
                M == cats[c].config.MaxTools
            IN /\ n = M => last'.err = CategoryFull(c, M)
               /\ n < M => /\ last'.err = NoError
                           /\ t.name \in DOMAIN cats'[c].tools
  ]_vars

\* C10 witness: a tool whose name the full, enabled category already holds
\* was refused with CategoryFull.
C10_Witness ==
  /\ last.op = "RegisterTool"
  /\ last.arg[1].category \in Categories
  /\ LET c == last.arg[1].category IN
       /\ cats[c].enabled
       /\ cats[c].config.MaxTools > 0
       /\ last.err = CategoryFull(c, cats[c].config.MaxTools)
       /\ last.arg[1].name \in DOMAIN cats[c].tools
       /\ Cardinality(DOMAIN cats[c].tools) = cats[c].config.MaxTools

(***************************************************************************)
(* SpecPool                                                                *)
(***************************************************************************)
InitPool == PoolInit /\ ClientInit /\ RegIdle /\ ServerInit

NextPool ==
  \E g \in Procs :
    \/ ClientAcquire(g)
    \/ ClientAcquireStep(g)
    \/ ClientAcquired(g)
    \/ ClientRelease(g)
    \/ ClientReleaseStep(g)
    \/ ClientReleased(g)

SpecPool == InitPool /\ [][NextPool]_vars

\* C1: under any interleaving of Acquire and Release (each handle released at
\* most once) the pool's active counter never exceeds maxSize.
C1_ActiveNeverExceedsMaxSize == active <= maxSize

(***************************************************************************)
(* Spec: the server under concurrent requests on both endpoints and Stop.  *)
(***************************************************************************)
\* NewServer: the registry built from the configuration, then RegisterAllTools.
ServerConfigs ==
  {[c \in {"math", "utility"} |-> CategoryConfig(e[c], CfgMaxTools, 0, 0)] :
     e \in [{"math", "utility"} -> BOOLEAN]}
ServerRegistry ==
  /\ \E cfg \in ServerConfigs : cats = RegisterAllTools(NewToolManager(cfg))
  /\ last = NoOp
  /\ nops = 0

J(method, id, params) == Req("json", method, id, params)
CallParams(name, arguments) == Some(Params(Some(name), arguments, None, None))

\* Request bodies sent to /mcp, one or more for every way the handler can end.
CoreBodies ==
  {Req("readErr", None, None, None),
   Req("badJSON", None, None, None),
   J(None, Some("1"), None),
   J(Some("initialize"), Some("1"), Some(Params(None, NullArgs, Some("cli"), None))),
   J(Some("no/such"), None, None),
   J(Some("tools/call"), Some("1"), CallParams("calculator", CalcArgs(Some("divide"), 1, 0, <<>>))),
   J(Some("tools/call"), Some("1"), CallParams("calculator", CalcArgs(Some("add"), 1, 2, <<>>)))}

\* Request bodies sent to /mcp/stream.
CoreStreamBodies ==
  {Req("readErr", None, None, None),
   J(Some("initialize"), Some("1"), None),
   J(Some("tools/call"), Some("1"), Some(Params(None, NullArgs, None, None))),
   J(Some("tools/call"), Some("1"), CallParams("calculator", CalcArgs(Some("add"), 1, 2, <<>>))),
   J(Some("tools/call"), Some("1"), CallParams("stream_text_processor", TextArgs(Some(<<"a">>), None))),
   J(Some("tools/call"), Some("1"), CallParams("stream_text_processor", TextArgs(Some(<<"a">>), Some("zip"))))}

Init == PoolInit /\ ClientInit /\ ServerInit /\ ServerRegistry

Next ==
  \/ StopSetFlag
  \/ StopWaiter
  \/ StopSelectDone
  \/ StopTimeout
  \/ \E r \in Procs :
       \/ Arrive(r, Endpoints)
       \/ CheckAdmission(r)
       \/ AddActive(r)
       \/ MCPReadBody(r, CoreBodies)
       \/ MCPAcquire(r)
       \/ MCPAcquireStep(r)
       \/ MCPAcquired(r)
       \/ MCPDispatch(r)
       \/ MCPRelease(r)
       \/ MCPReleaseStep(r)
       \/ MCPReleased(r)
       \/ StreamReadBody(r, CoreStreamBodies)
       \/ StreamCall(r)
       \/ StreamEmit(r)
       \/ StreamEnd(r)
       \/ Done(r)

Spec == Init /\ [][Next]_vars

\* Stop's own steps.  Its goroutines are scheduled and its timer fires; no
\* such assumption is made about a request handler, which may block forever.
StopProgress == StopWaiter \/ StopSelectDone \/ StopTimeout
SpecLive == Init /\ [][Next]_vars /\ WF_vars(StopProgress)

\* Handler positions at which the request has passed the admission check
\* and its handler has not returned.
Admitted == {"admitted", "body", "acquire", "acquiring", "dispatch", "release",
             "releasing", "call", "emitting", "finish"}
\* ... at which activeOps.Add(1) has run and the deferred Done has not.
Counted == Admitted \ {"admitted"}

\* C2: once Stop has set the draining flag, every later admission check, on
\* /mcp and on /mcp/stream, is answered 503 without incrementing the
\* in-flight counter, and the flag never returns to false.
C2_DrainingRejects ==
  [][/\ shuttingDown => shuttingDown'
     /\ \A r \in Procs :
          (shuttingDown /\ rpc[r] = "check" /\ rpc'[r] # "check") =>
            /\ rpc'[r] = "done"
            /\ resp'[r].status = 503
            /\ activeOps' = activeOps
  ]_vars

\* C2 witness: while draining, with a request still in flight, a request
\* has been turned away with 503.
C2_Witness ==
  /\ shuttingDown
  /\ activeOps > 0
  /\ \E r \in Procs : rpc[r] = "done" /\ resp[r].status = 503

\* C3: when Stop sees zero in-flight requests and goes on to close the
\* transport, no request that passed the admission check is still
\* unprocessed or in progress.
C3_NoAdmittedRequestAtClose ==
  (stopPc = "closing" /\ ~forced) => \A r \in Procs : rpc[r] \notin Admitted

\* C4: after a stop signal the coordinator always leaves Draining: it goes on
\* to close the transport once the in-flight counter was seen at zero or the
\* grace period has elapsed, even if an in-flight request never completes.
C4_StopLeavesDraining ==
  /\ shuttingDown ~> (stopPc = "closing")
  /\ [](stopPc = "closing" => (forced \/ waitDone))

\* C4 witness: Stop went on after the grace period while a request was
\* still in flight.
C4_Witness ==
  /\ stopPc = "closing"
  /\ forced
  /\ ~waitDone
  /\ activeOps > 0

\* C5: the in-flight counter equals the number of requests that have
\* incremented it and whose handler has not returned; every way out of a
\* handler decrements it once, and it is never negative.
C5_InFlightCount ==
  /\ activeOps = Cardinality({r \in Procs : rpc[r] \in Counted})
  /\ activeOps >= 0

\* C5 witness: two handlers have returned, one with the pool exhausted and
\* one with a tool error, and the counter is back at zero.
C5_Witness ==
  /\ activeOps = 0
  /\ \E r1, r2 \in Procs :
       /\ rpc[r1] = "done" /\ resp[r1].code = -32000
       /\ rpc[r2] = "done" /\ resp[r2].code = -32603
       /\ resp[r2].msg = <<"division by zero", "">>

(***************************************************************************)
(* SpecStream: requests on /mcp/stream with a wide range of bodies, and    *)
(* clients that may go away while their stream is open.                    *)
(***************************************************************************)
MaxTextLen == 3
MaxWords == 96

Alphabet == {"a", "B", " ", "\n"}
ShortTexts == UNION {[1..n -> Alphabet] : n \in 0..MaxTextLen}
\* n times the word "a", separated by single spaces
WordsText(n) == [i \in 1..(2 * n - 1) |-> IF i % 2 = 1 THEN "a" ELSE " "]
LongTexts == {WordsText(n) : n \in 1..MaxWords}
OperationNames == TextOperations \cup {"zip"}

StreamArguments ==
  {NullArgs, OtherArgs, CalcArgs(Some("add"), 1, 2, <<>>), CalcArgs(Some("divide"), 1, 0, <<>>)}
  \cup {TextArgs(None, Some(op)) : op \in OperationNames}
  \cup {TextArgs(Some(t), None) : t \in ShortTexts}
  \cup {TextArgs(Some(t), Some(op)) : t \in ShortTexts, op \in OperationNames}

StreamToolNames == {"calculator", "stream_text_processor", "foo"}

StreamBodies ==
  {Req("readErr", None, None, None),
   Req("badJSON", None, None, None),
   Req("nonObject", None, None, None),
   Req("trailing", Some("tools/call"), Some("1"),
       CallParams("stream_text_processor", TextArgs(Some(<<"a">>), None))),
   J(None, Some("1"), None),
   J(Some("initialize"), Some("1"), None),
   J(Some("tools/call"), Some("1"), None),
   J(Some("tools/call"), Some("1"), Some(Params(None, NullArgs, None, None)))}
  \cup {J(Some("tools/call"), Some("1"), CallParams(n, a)) :
          n \in StreamToolNames, a \in StreamArguments}

\* One streaming call is followed; the events of a call do not depend on
\* any other call.
StreamProcs == {1}

NextStream ==
  \E r \in StreamProcs :
    \/ Arrive(r, {"stream"})
    \/ CheckAdmission(r)
    \/ AddActive(r)
    \/ StreamReadBody(r, StreamBodies)
    \/ StreamCall(r)
    \/ StreamEmit(r)
    \/ StreamEnd(r)
    \/ Done(r)
    \/ ClientDisconnect(r)

SpecStream == Init /\ [][NextStream]_vars

(***************************************************************************)
(* SpecLongText: streaming calls of stream_text_processor on texts of up   *)
(* to MaxWords words.                                                      *)
(***************************************************************************)
LongTextBodies ==
  {J(Some("tools/call"), Some("1"), CallParams("stream_text_processor", TextArgs(Some(t), Some(op)))) :
     t \in LongTexts, op \in TextOperations}

NextLongText ==
  \E r \in StreamProcs :
    \/ Arrive(r, {"stream"})
    \/ CheckAdmission(r)
    \/ AddActive(r)
    \/ StreamReadBody(r, LongTextBodies)
    \/ StreamCall(r)
    \/ StreamEmit(r)
    \/ StreamEnd(r)
    \/ Done(r)

SpecLongText == Init /\ [][NextLongText]_vars

IsContent(e) == e.kind = "content"
Positions(seq, kinds) == {i \in DOMAIN seq : seq[i].kind \in kinds}
\* The handler of an admitted /mcp/stream request has left
\* handleStreamToolsCall or returned before it.
StreamOver(r) ==
  endpoint[r] = "stream" /\ rpc[r] \in {"finish", "done"} /\ resp[r] = StreamResponse
\* The request is a tools/call with well-formed params and the handler has
\* gone past the tests of params and name.
WellFormedCall(r) ==
  endpoint[r] = "stream" /\ rreq[r] # NoReq /\ rpc[r] \in {"call", "emitting", "finish", "done"}
IsPrefix(s, t) == Len(s) <= Len(t) /\ \A i \in DOMAIN s : s[i] = t[i]

\* C6: every request admitted on /mcp/stream ends with exactly one terminal
\* event, done or error; no event of the call is sent after the terminal
\* event, and none before the handler is over.
C6_ExactlyOneTerminalEvent ==
  \A r \in Procs :
    /\ \A i \in Positions(sent[r], TerminalKinds) : i = Len(sent[r])
    /\ \A i \in Positions(wire[r], TerminalKinds) : i = Len(wire[r])
    /\ StreamOver(r) => Cardinality(Positions(sent[r], TerminalKinds)) = 1
    /\ (Positions(sent[r], TerminalKinds) # {}) => StreamOver(r)

\* C6 witness: a call that made callbacks and then failed has ended, its
\* last event the error event, the content events before it.
C6_Witness ==
  \E r \in Procs :
    /\ rpc[r] = "done"
    /\ Len(sent[r]) >= 5
    /\ sent[r][Len(sent[r])].kind = "error"
    /\ sent[r][Len(sent[r]) - 1].kind = "content"

\* C7: for a streaming tools/call with well-formed params the first event is
\* the started event with the tool's name and status "started", sent once;
\* every content event lies after it and before the terminal event; the
\* content events are the tool's callbacks in the order they were made, and
\* what reaches the client is a prefix of what was sent.
C7_StartedFirstThenContentInOrder ==
  \A r \in Procs :
    /\ WellFormedCall(r) =>
         /\ Len(sent[r]) >= 1
         /\ sent[r][1] = [kind |-> "tool/call",
                          tool |-> rreq[r].params[1].name[1], status |-> "started"]
         /\ Positions(sent[r], {"tool/call"}) = {1}
         /\ \A i \in Positions(sent[r], {"content"}) :
              /\ i > 1
              /\ \A j \in Positions(sent[r], TerminalKinds) : i < j
         /\ SelectSeq(sent[r], IsContent) =
              [i \in DOMAIN emitted[r] |->
                 [kind |-> "content", type |-> "text",
                  content |-> emitted[r][i].content, index |-> emitted[r][i].index]]
         /\ (rpc[r] \in {"finish", "done"} /\ Resolve(cats, rreq[r].params[1].name[1]) # {}
             /\ rreq[r].params[1].name[1] = "stream_text_processor") =>
              emitted[r] = StreamEmissions(rreq[r].params[1].arguments)
    /\ ~WellFormedCall(r) => Positions(sent[r], {"tool/call", "content"}) = {}
    /\ IsPrefix(wire[r], sent[r])

\* C7 witness: a split of a two-word text has ended with the done event:
\* the started event, eight content events, the done event.
C7_Witness ==
  \E r \in Procs :
    /\ rpc[r] = "done"
    /\ Len(sent[r]) = 10
    /\ sent[r][1].kind = "tool/call"
    /\ sent[r][1].tool = "stream_text_processor"
    /\ sent[r][5].content = <<"splitting">>
    /\ sent[r][10].kind = "done"

\* C8: in every streaming call of stream_text_processor, whatever the
\* operation and the number of words of the text, the content events carry
\* strictly increasing index values.
C8_ContentIndexStrictlyIncreasing ==
  \A r \in Procs :
    LET content == SelectSeq(sent[r], IsContent) IN
    \A i \in 1..(Len(content) - 1) : content[i].index < content[i + 1].index

(***************************************************************************)
(* Registry calls as operations: CallTool, CallToolStream, GetTools and    *)
(* GetToolsByCategory run under tm.mu.RLock() from their first to their    *)
(* last statement, so no write to the registry falls inside one of them.   *)
(***************************************************************************)
\* The record of one call: what it was given, the run it made, the timeout
\* of the category it resolved, the deadline of the ctx handed to the tool
\* and the time the tool returned (milliseconds).
CallRecord(op, name, args, run, t0, caller, timeout, extra, slept) ==
  LET deadline == EffectiveDeadline(caller, t0, timeout)
      returned == t0 + slept + extra
  IN [op |-> op, arg |-> <<name, args>>, err |-> NoError,
      out |-> ToolOutcome(run.res, deadline, returned),
      invoked |-> run.invoked, emits |-> run.emits,
      start |-> t0, caller |-> caller, timeout |-> timeout,
      deadline |-> IF run.invoked = <<>> THEN caller ELSE deadline,
      returned |-> IF run.invoked = <<>> THEN t0 ELSE returned]

\* config.Timeout of the category whose tool the run called
RunTimeout(cs, run) ==
  IF run.invoked = <<>> THEN 0 ELSE cs[run.invoked[1].category].config.Timeout

CallToolOp(names, arguments, starts, callers, extras) ==
  /\ nops < MaxAdminOps
  /\ \E name \in names, args \in arguments, t0 \in starts, caller \in callers, extra \in extras :
       \E run \in CallToolRuns(cats, name, args) :
         last' = CallRecord("CallTool", name, args, run, t0, caller,
                            RunTimeout(cats, run), extra, 0)
  /\ nops' = nops + 1
  /\ UNCHANGED <<cats, poolVars, clientVars, serverSide>>

CallToolStreamOp(names, arguments, starts, callers, extras) ==
  /\ nops < MaxAdminOps
  /\ \E name \in names, args \in arguments, t0 \in starts, caller \in callers, extra \in extras :
       \E run \in CallToolStreamRuns(cats, name, args) :
         last' = CallRecord("CallToolStream", name, args, run, t0, caller,
                            RunTimeout(cats, run), extra,
                            IF run.invoked # <<>> /\ SupportsStream(run.invoked[1])
                              THEN StreamSleep(args) ELSE 0)
  /\ nops' = nops + 1
  /\ UNCHANGED <<cats, poolVars, clientVars, serverSide>>

GetToolsOp ==
  /\ nops < MaxAdminOps
  /\ last' = [op |-> "GetTools", arg |-> <<>>, err |-> NoError, out |-> GetTools(cats)]
  /\ nops' = nops + 1
  /\ UNCHANGED <<cats, poolVars, clientVars, serverSide>>

GetToolsByCategoryOp(cs) ==
  /\ nops < MaxAdminOps
  /\ \E c \in cs :
       last' = [op |-> "GetToolsByCategory", arg |-> <<c>>, err |-> NoError,
                out |-> GetToolsByCategory(cats, c)]
  /\ nops' = nops + 1
  /\ UNCHANGED <<cats, poolVars, clientVars, serverSide>>

(***************************************************************************)
(* SpecLookup: registrations, category switches and calls in any order.    *)
(***************************************************************************)
LookupTools ==
  {CalculatorTool, StreamTextProcessor, Tool("echo", "math", "plain"),
   Tool("calculator", "utility", "plain"), Tool("stream_text_processor", "math", "plain")}
LookupNames == {"calculator", "stream_text_processor", "echo", "foo"}
LookupArguments ==
  {CalcArgs(Some("add"), 1, 2, <<>>), CalcArgs(Some("divide"), 1, 0, <<>>),
   TextArgs(Some(<<"a", " ", "B">>), Some("split")), NullArgs}
LookupCategories == {"math", "utility", "legacy"}
LookupConfigValues == {CategoryConfig(e, m, 0, 0) : e \in BOOLEAN, m \in {0, CfgMaxTools}}

InitLookup ==
  /\ \E cfg \in ServerConfigs :
       cats \in {NewToolManager(cfg), RegisterAllTools(NewToolManager(cfg))}
  /\ last = NoOp
  /\ nops = 0
  /\ PoolInit /\ ClientInit /\ ServerInit

NextLookup ==
  \/ \E t \in LookupTools : RegisterTool(t)
  \/ \E c \in LookupCategories : EnableCategory(c)
  \/ \E c \in LookupCategories : DisableCategory(c)
  \/ \E c \in LookupCategories, cfg \in LookupConfigValues : UpdateCategoryConfig(c, cfg)
  \/ CallToolOp(LookupNames, LookupArguments, {0}, {None}, {0})
  \/ CallToolStreamOp(LookupNames, LookupArguments, {0}, {None}, {0})
  \/ GetToolsOp
  \/ GetToolsByCategoryOp(LookupCategories)

SpecLookup == InitLookup /\ [][NextLookup]_vars

\* The last operation was a CallTool or a CallToolStream.
IsCall == last.op \in {"CallTool", "CallToolStream"}
\* The categories that hold a tool under the name, enabled or not.
Holders(name) == {c \in Categories : name \in DOMAIN cats[c].tools}

C12_UnknownNameNotFound ==
  (IsCall /\ Holders(last.arg[1]) = {}) =>
    /\ last.out = [ok |-> FALSE, val |-> <<"tool not found", last.arg[1]>>]
    /\ last.invoked = <<>>
    /\ last.emits = <<>>

\* C12 witness: a streaming call of "foo" was refused while an enabled
\* category held tools and another category was disabled.
C12_Witness ==
  /\ last.op = "CallToolStream"
  /\ last.arg[1] = "foo"
  /\ last.out = [ok |-> FALSE, val |-> <<"tool not found", "foo">>]
  /\ \E c \in Categories : cats[c].enabled /\ DOMAIN cats[c].tools # {}
  /\ \E c \in Categories : ~cats[c].enabled /\ DOMAIN cats[c].tools # {}

\* C13: GetTools lists exactly the tools held by enabled categories, and
\* GetToolsByCategory those of the category when it is enabled and nothing
\* otherwise; a tool of a disabled category is never listed.
C13_ListsEnabledOnly ==
  /\ last.op = "GetTools" =>
       last.out =
         UNION {{[name |-> n, category |-> c, enabled |-> TRUE] : n \in DOMAIN cats[c].tools} :
                  c \in {d \in Categories : cats[d].enabled}}
  /\ last.op = "GetToolsByCategory" =>
       LET c == last.arg[1] IN
       last.out =
         IF c \in Categories /\ cats[c].enabled
           THEN {[name |-> n, category |-> c, enabled |-> TRUE] : n \in DOMAIN cats[c].tools}
           ELSE {}

\* C13 witness: a category that was enabled when its tool was registered and
\* was disabled afterwards is listed as empty.
C13_Witness ==
  /\ last.op = "GetToolsByCategory"
  /\ last.arg[1] \in Categories
  /\ ~cats[last.arg[1]].enabled
  /\ DOMAIN cats[last.arg[1]].tools # {}
  /\ last.out = {}

\* C16: when the name resolves to tools that are no StreamTool,
\* CallToolStream returns what CallTool returns on the same registry, name
\* and arguments (the same error, or the one-element envelope of type "text"
\* around the tool's output), calls the tool once and makes no callback.
C16_FallbackIsCallTool ==
  (/\ last.op = "CallToolStream"
   /\ Lookup(cats, last.arg[1]) # {}
   /\ \A t \in Lookup(cats, last.arg[1]) : t.impl # "stream_text_processor") =>
    /\ last.out \in CallTool(cats, last.arg[1], last.arg[2])
    /\ Len(last.invoked) = 1
    /\ last.invoked[1] \in Lookup(cats, last.arg[1])
    /\ last.emits = <<>>
    /\ LET raw == ToolExecute(last.invoked[1], last.arg[2]) IN
         last.out = IF raw.ok
                      THEN [ok |-> TRUE, val |-> [content |-> <<[type |-> "text", text |-> raw.val]>>]]
                      ELSE raw

\* C16 witness: a streaming call of the calculator returned its sum in the
\* envelope with no callback made.
C16_Witness ==
  /\ last.op = "CallToolStream"
  /\ last.invoked = <<CalculatorTool>>
  /\ last.out.ok
  /\ last.out.val.content[1].text.result = [num |-> 3, den |-> 1]
  /\ last.emits = <<>>

(***************************************************************************)
(* SpecDeadline: calls of the registered tools under category timeouts and *)
(* caller deadlines.  Times are milliseconds.                              *)
(***************************************************************************)
TimeoutValues == {0, 100, 1000}
CallerDeadlines == {None, Some(50), Some(400), Some(5000)}
StartTimes == {0, 200}
\* time a tool spends besides its own sleeps
ExtraDelays == {0, 150}
DeadlineCategories == {"math", "utility"}
DeadlineConfigValues == {CategoryConfig(TRUE, CfgMaxTools, 0, t) : t \in TimeoutValues}
DeadlineNames == {"calculator", "stream_text_processor", "foo"}
DeadlineArguments ==
  {CalcArgs(Some("add"), 1, 2, <<>>),
   TextArgs(Some(<<"a", " ", "B">>), Some("split")),
   TextArgs(Some(<<"a">>), Some("analyze"))}

InitDeadline ==
  /\ \E cfg \in [DeadlineCategories -> DeadlineConfigValues] :
       cats = RegisterAllTools(NewToolManager(cfg))
  /\ last = NoOp
  /\ nops = 0
  /\ PoolInit /\ ClientInit /\ ServerInit

NextDeadline ==
  \/ \E c \in DeadlineCategories, cfg \in DeadlineConfigValues : UpdateCategoryConfig(c, cfg)
  \/ CallToolOp(DeadlineNames, DeadlineArguments, StartTimes, CallerDeadlines, ExtraDelays)
  \/ CallToolStreamOp(DeadlineNames, DeadlineArguments, StartTimes, CallerDeadlines, ExtraDelays)

SpecDeadline == InitDeadline /\ [][NextDeadline]_vars

\* The last operation was a call that reached a tool.
ToolWasCalled == IsCall /\ last.invoked # <<>>

\* C14: the deadline a tool is called under is the earlier of the caller's
\* deadline and start + category timeout when both are set, the one that is
\* set when only one is (a timeout of 0 is not set), and none when neither
\* is, in CallTool and in CallToolStream.
C14_EffectiveDeadline ==
  ToolWasCalled =>
    LET to == cats[last.invoked[1].category].config.Timeout
        d == last.caller
        t == last.start + to
    IN /\ last.timeout = to
       /\ (d # <<>> /\ to # 0) => last.deadline = <<IF d[1] < t THEN d[1] ELSE t>>
       /\ (d # <<>> /\ to = 0) => last.deadline = d
       /\ (d = <<>> /\ to # 0) => last.deadline = <<t>>
       /\ (d = <<>> /\ to = 0) => last.deadline = <<>>

\* C14 witness: a streaming call whose caller's deadline is earlier than
\* start + category timeout ran under the caller's deadline.
C14_Witness ==
  /\ last.op = "CallToolStream"
  /\ last.invoked = <<StreamTextProcessor>>
  /\ last.timeout > 0
  /\ last.caller # <<>>
  /\ last.caller[1] < last.start + last.timeout
  /\ last.deadline = last.caller

\* C15: a call of a registered tool whose deadline has passed when the tool
\* returns ends in a failure, never in a success result.
C15_ExpiredDeadlineFails ==
  (ToolWasCalled /\ last.deadline # <<>> /\ last.deadline[1] < last.returned) => ~last.out.ok

(***************************************************************************)
(* SpecPoolSeq: one goroutine calling Acquire and Release one after the    *)
(* other on pools of several capacities (no concurrent calls, so every     *)
(* read of cp.active sees the latest write).                               *)
(***************************************************************************)
MaxSeqCalls == 4
SeqProc == 1
PoolSizes == 1..(PoolMaxSize + 1)

InitPoolSeq ==
  /\ \E n \in PoolSizes : PoolInitSized(n)
  /\ ClientInit /\ RegIdle /\ ServerInit

SeqAcquire ==
  /\ calls[SeqProc] < MaxSeqCalls
  /\ \E c \in ClientNames : AcquireSelect(SeqProc, c)
  /\ calls' = [calls EXCEPT ![SeqProc] = @ + 1]
  /\ UNCHANGED <<held, lastRel, regVars, serverSide>>

NextPoolSeq ==
  \/ SeqAcquire
  \/ ClientAcquireStep(SeqProc)
  \/ ClientAcquired(SeqProc)
  \/ ClientRelease(SeqProc)
  \/ ClientReleaseStep(SeqProc)
  \/ ClientReleased(SeqProc)

SpecPoolSeq == InitPoolSeq /\ [][NextPoolSeq]_vars

\* C17 as stated: an Acquire that follows Release(h) returns h.
C17_ReleaseThenAcquireReturnsIt ==
  (ppc[SeqProc] = "acq_ok" /\ lastRel.conn # NoConn) => pconn[SeqProc] = lastRel.conn

\* C17, amended: when a handle is idle, Acquire takes the one that has been
\* idle the longest, unchanged in id and client identity whoever asks, and
\* creates none; so an Acquire that follows Release(h) returns h whenever h
\* was released while no other handle was idle.
C17_IdleHandleReused ==
  /\ [](( /\ ppc[SeqProc] = "acq_ok"
          /\ lastRel.conn # NoConn
          /\ lastRel.queued = 0) => pconn[SeqProc] = lastRel.conn)
  /\ [][( /\ ppc[SeqProc] = "idle"
          /\ ppc'[SeqProc] \in {"acq_pooled", "acq_check"}
          /\ Len(pool) > 0)
        => ( /\ ppc'[SeqProc] = "acq_pooled"
             /\ pconn'[SeqProc] = Head(pool)
             /\ pool' = Tail(pool)
             /\ nextId' = nextId )]_vars

\* C17 witness: a handle released into an empty idle set has come back from
\* the next Acquire, made for a client other than the one it was created for.
C17_Witness ==
  /\ ppc[SeqProc] = "acq_ok"
  /\ lastRel.conn # NoConn
  /\ lastRel.queued = 0
  /\ pconn[SeqProc] = lastRel.conn
  /\ pconn[SeqProc].client # pclient[SeqProc]

\* C18: an Acquire that finds no idle handle while active >= maxSize fails
\* with the pool-exhausted error, creating no handle and leaving active and
\* the idle set as they were; every Acquire that succeeds adds exactly one to
\* active.
C18_ExhaustedAcquireFails ==
  [][\A g \in Procs :
       /\ ( /\ ppc[g] = "acq_check"
            /\ ppc'[g] # "acq_check"
            /\ active >= maxSize )
          => ( /\ ppc'[g] = "acq_fail"
               /\ nextId' = nextId
               /\ active' = active
               /\ pool' = pool )
       /\ (ppc[g] # "acq_ok" /\ ppc'[g] = "acq_ok") => active' = active + 1]_vars

(***************************************************************************)
(* SpecPoolPair: two goroutines calling Acquire and Release concurrently   *)
(* on a pool of capacity 1, enough to reach both branches of the select in *)
(* Release.                                                                *)
(***************************************************************************)
PairProcs == {1, 2}

\* NewConnectionPool(1): the smallest pool, whose idle set one handle fills
InitPoolPair == PoolInitSized(1) /\ ClientInit /\ RegIdle /\ ServerInit

NextPoolPair ==
  \E g \in PairProcs :
    \/ ClientAcquire(g)
    \/ ClientAcquireStep(g)
    \/ ClientAcquired(g)
    \/ ClientRelease(g)
    \/ ClientReleaseStep(g)
    \/ ClientReleased(g)

SpecPoolPair == InitPoolPair /\ [][NextPoolPair]_vars

\* C19: Release never blocks (a caller holding a handle can always start it
\* and a started Release can always finish), takes exactly one from active,
\* and appends the handle to the idle set when that holds fewer than maxSize
\* handles, else drops it and leaves the idle set as it was.
C19_ReleaseNeverBlocks ==
  /\ [](\A g \in Procs :
          /\ (ppc[g] = "idle" /\ held[g] # {}) => ENABLED ClientRelease(g)
          /\ ppc[g] = "rel_dec" => ENABLED ClientReleaseStep(g))
  /\ [][\A g \in Procs :
          /\ (ppc[g] = "idle" /\ ppc'[g] = "rel_dec")
               => /\ pool' = IF Len(pool) < maxSize THEN Append(pool, pconn'[g]) ELSE pool
                  /\ active' = active
          /\ (ppc[g] = "rel_dec" /\ ppc'[g] # "rel_dec")
               => (ppc'[g] = "rel_done" /\ active' = active - 1 /\ pool' = pool)]_vars

\* C19 witness: a Release found the idle set full and dropped its handle.
C19_Witness ==
  \E g \in Procs :
    /\ ppc[g] = "rel_dec"
    /\ Len(pool) = maxSize
    /\ \A i \in 1..Len(pool) : pool[i] # pconn[g]

\* C20: every admitted request, on /mcp or on /mcp/stream, holds a pool
\* handle from before its dispatch until after its response: no tool runs
\* for a request that holds no handle.
C20_ToolRunsUnderHandle ==
  \A r \in Procs : rpc[r] \in {"dispatch", "emitting"} => rconn[r] # NoConn

(***************************************************************************)
(* SpecMcp: two requests on POST /mcp while the server is running; the     *)
(* first has every kind of body and every method of handleMCPOperation,    *)
(* the second competes with it for the pool.                               *)
(***************************************************************************)
McpIds == {None, Some("1"), Some("9007199254740993")}

McpMethods ==
  {"initialize", "notifications/initialized", "tools/list", "resources/list",
   "prompts/list", "roots/list", "no/such"}

McpBodies ==
  {Req("readErr", None, None, None),
   Req("badJSON", None, None, None),
   Req("nonObject", None, None, None),
   Req("trailing", Some("tools/list"), Some("1"), None)}
  \cup {J(None, id, None) : id \in McpIds}
  \cup {J(Some(m), id, None) : m \in McpMethods, id \in McpIds}
  \cup {J(Some("initialize"), Some("1"), Some(Params(None, NullArgs, Some("cli"), None))),
        J(Some("tools/call"), Some("1"), None),
        J(Some("tools/call"), Some("1"), Some(Params(None, NullArgs, None, None))),
        J(Some("tools/call"), None, CallParams("calculator", CalcArgs(Some("add"), 1, 2, <<>>))),
        J(Some("tools/call"), Some("1"), CallParams("calculator", CalcArgs(Some("divide"), 1, 0, <<>>))),
        J(Some("tools/call"), Some("1"), CallParams("calculator", CalcArgs(Some("pow"), 1, 2, <<>>))),
        J(Some("tools/call"), Some("1"), CallParams("calculator", OtherArgs)),
        J(Some("tools/call"), Some("1"), CallParams("stream_text_processor", TextArgs(None, None))),
        J(Some("tools/call"), Some("1"), CallParams("stream_text_processor", TextArgs(Some(<<"a">>), Some("zip")))),
        J(Some("tools/call"), Some("1"), CallParams("stream_text_processor", TextArgs(Some(<<"a">>), None))),
        J(Some("tools/call"), Some("1"), CallParams("foo", NullArgs)),
        J(Some("resources/read"), Some("1"), None),
        J(Some("resources/read"), Some("1"), Some(Params(None, NullArgs, None, Some("file:///example.txt")))),
        J(Some("resources/read"), Some("1"), Some(Params(None, NullArgs, None, Some("file:///none")))),
        J(Some("prompts/get"), Some("1"), Some(Params(Some("example_prompt"), NullArgs, None, None))),
        J(Some("prompts/get"), Some("1"), Some(Params(Some("other"), NullArgs, None, None)))}

NextMcp ==
  \E r \in PairProcs :
    \/ Arrive(r, {"mcp"})
    \/ CheckAdmission(r)
    \/ AddActive(r)
    \/ MCPReadBody(r, IF r = 1 THEN McpBodies ELSE CoreBodies)
    \/ MCPAcquire(r)
    \/ MCPAcquireStep(r)
    \/ MCPAcquired(r)
    \/ MCPDispatch(r)
    \/ MCPRelease(r)
    \/ MCPReleaseStep(r)
    \/ MCPReleased(r)
    \/ Done(r)

SpecMcp == Init /\ [][NextMcp]_vars

\* The request r on /mcp has been answered with a JSON-RPC envelope.
Answered(r) == endpoint[r] = "mcp" /\ resp[r].kind \in {"error", "result"}

\* The body is valid JSON (whatever its value).
ValidJSON(b) == b.kind \in {"json", "nonObject"}

\* C21: on POST /mcp while running, the error code is that of the first
\* failing check: body not valid JSON -32700, then method missing or no
\* string -32600, then pool exhausted -32000, then unsupported method or
\* failed handler -32603; every error response has HTTP status 400.
C21_FirstFailingCheck ==
  \A r \in Procs :
    (Answered(r) /\ rbody[r].kind # "readErr") =>
      LET b == rbody[r]
          e == resp[r]
      IN /\ e.kind = "error" => e.status = 400
         /\ IF ~ValidJSON(b) THEN e.kind = "error" /\ e.code = -32700
            ELSE IF b.kind = "nonObject" \/ b.method = None
              THEN e.kind = "error" /\ e.code = -32600
            ELSE e.kind = "error" => e.code \in {-32000, -32603}

\* C22: every success response on /mcp is {jsonrpc, result, id} with the id
\* of the request (null when it had none); every error response is
\* {jsonrpc, error: {code, message}, id: null} even when the request had an
\* id; no response has both a result and an error.
C22_Envelopes ==
  \A r \in Procs :
    Answered(r) =>
      /\ resp[r].kind = "result" =>
            /\ resp[r].result # None
            /\ resp[r].code = 0 /\ resp[r].msg = <<>>
            /\ resp[r].id = rbody[r].id
      /\ resp[r].kind = "error" =>
            /\ resp[r].result = None
            /\ resp[r].code # 0 /\ resp[r].msg # <<>>
            /\ resp[r].id = None

\* The request r on /mcp went through handleMCPOperation and was answered.
Dispatched(r) == Answered(r) /\ rreq[r] # NoReq /\ resp[r].code # -32000

ListingMethods == {"resources/list", "prompts/list", "roots/list"}
EmptyListing(m) ==
  CASE m = "resources/list" -> [resources |-> {}]
    [] m = "prompts/list" -> [prompts |-> {}]
    [] m = "roots/list" -> [roots |-> {}]

\* What C23 says of a dispatched request, given the methods that are served.
RouterContract(r, served) ==
  LET m == rreq[r].method[1]
  IN /\ m \notin served =>
          resp[r] = sendErrorResponse(<<"unsupported method", m>>, -32603)
     /\ m \in ListingMethods =>
          resp[r].kind = "result" /\ resp[r].result = Some(EmptyListing(m))
     /\ m = "notifications/initialized" =>
          resp[r].kind = "result" /\ resp[r].result = Some(<<"null">>)

\* C23 as stated: every method other than initialize,
\* notifications/initialized, tools/list, tools/call and the three listing
\* methods fails with -32603 "unsupported method: <method>"; the listing
\* methods return empty collections and notifications/initialized an empty
\* result.
C23_SevenMethods ==
  \A r \in Procs :
    Dispatched(r) =>
      RouterContract(r, {"initialize", "notifications/initialized", "tools/list",
                         "tools/call"} \cup ListingMethods)

\* C23, amended: the same with resources/read and prompts/get among the
\* methods that are served.
C23_NineMethods ==
  \A r \in Procs :
    Dispatched(r) =>
      RouterContract(r, {"initialize", "notifications/initialized", "tools/list",
                         "tools/call", "resources/read", "prompts/get"}
                        \cup ListingMethods)

\* C23 witness: a request for the method "no/such" was refused as
\* unsupported and a roots/list request got its empty collection.
C23_Witness ==
  \E r, q \in Procs :
    /\ Dispatched(r) /\ rreq[r].method = Some("no/such") /\ resp[r].code = -32603
    /\ Dispatched(q) /\ rreq[q].method = Some("roots/list") /\ resp[q].kind = "result"

\* The body is no well-formed tools/call: not one JSON object, no method or
\* another method, no params object, no tool name.
Malformed(b) ==
  \/ b.kind \in {"badJSON", "nonObject", "trailing"}
  \/ /\ b.kind = "json"
     /\ \/ b.method # Some("tools/call")
        \/ b.params = None
        \/ b.params[1].name = None

\* C24: on /mcp/stream a request that is no well-formed tools/call gets
\* exactly one error event and nothing else: no started event is written, no
\* tool is invoked, no callback is made.
C24_MalformedGetsOneError ==
  \A r \in Procs :
    (endpoint[r] = "stream" /\ Malformed(rbody[r])) =>
      /\ Len(sent[r]) = 1
      /\ sent[r][1].kind = "error"
      /\ IsPrefix(wire[r], sent[r])
      /\ rreq[r] = NoReq
      /\ rpc[r] \in {"finish", "done"}
      /\ emitq[r] = <<>> /\ emitted[r] = <<>> /\ sres[r] = NoResult

\* C24 witness: a tools/call without a tool name has been answered with the
\* one error event, which reached the client.
C24_Witness ==
  \E r \in Procs :
    /\ endpoint[r] = "stream"
    /\ rbody[r].kind = "json" /\ rbody[r].method = Some("tools/call")
    /\ rbody[r].params # None /\ rbody[r].params[1].name = None
    /\ wire[r] = <<ErrorEvent(<<"Missing or invalid tool name">>)>>
    /\ rpc[r] = "done"

(***************************************************************************)
(* SpecHealth: requests on /health and on /mcp while Stop runs.  The       *)
(* server is Running while stopPc = "running", Draining while Stop waits   *)
(* ("waiting") and Stopped once Stop has gone on to httpSrv.Shutdown       *)
(* ("closing"); a request that the transport has accepted may reach its    *)
(* handler in any of the three.                                            *)
(***************************************************************************)
\* A health response that reflects the drain.
HealthResponseDraining ==
  IF shuttingDown THEN HttpError("draining", 503)
  ELSE Response(200, "health", 0, <<"healthy">>, None, None)

\* handleHealthCheck's response: 200, {"status": "healthy"}
HealthResponse == Response(200, "health", 0, <<"healthy">>, None, None)

\* handleHealthCheck, whatever the HTTP method; last records the call and
\* the state of Stop it ran in.
handleHealthCheck(r) ==
  /\ rpc[r] = "check"
  /\ endpoint[r] = "health"
  /\ resp' = [resp EXCEPT ![r] = HealthResponse]
  /\ rpc' = [rpc EXCEPT ![r] = "done"]
  /\ last' = [op |-> "handleHealthCheck", arg |-> <<r, stopPc>>, err |-> NoError]
  /\ UNCHANGED <<endpoint, rbody, rreq, rconn, activeOps, stopVars, strVars, poolVars,
                 clientVars, lockVars, cats, nops>>

NextHealth ==
  \/ StopSetFlag
  \/ StopWaiter
  \/ StopSelectDone
  \/ StopTimeout
  \/ \E r \in PairProcs :
       \/ Arrive(r, {"mcp", "health"})
       \/ handleHealthCheck(r)
       \/ CheckAdmission(r)
       \/ AddActive(r)
       \/ MCPReadBody(r, CoreBodies)
       \/ MCPAcquire(r)
       \/ MCPAcquireStep(r)
       \/ MCPAcquired(r)
       \/ MCPDispatch(r)
       \/ MCPRelease(r)
       \/ MCPReleaseStep(r)
       \/ MCPReleased(r)
       \/ Done(r)

SpecHealth == Init /\ [][NextHealth]_vars

\* C25: /health answers 200 with status healthy in every server state,
\* Running, Draining and Stopped alike, and changes neither the in-flight
\* counter nor the pool.
C25_HealthAlways200 ==
  /\ [](\A r \in Procs :
          /\ (endpoint[r] = "health" /\ rpc[r] = "check") => ENABLED handleHealthCheck(r)
          /\ (endpoint[r] = "health" /\ rpc[r] = "done") =>
                /\ resp[r].status = 200
                /\ resp[r].msg = <<"healthy">>)
  /\ [][\A r \in Procs :
          (endpoint[r] = "health" /\ rpc[r] = "check" /\ rpc'[r] # "check")
            => /\ rpc'[r] = "done"
               /\ activeOps' = activeOps
               /\ UNCHANGED poolVars]_vars

\* C25 witness: the latest health check ran after Stop had gone on to close
\* the transport, with an /mcp request still in flight, and was answered.
C25_Witness ==
  /\ last.op = "handleHealthCheck"
  /\ last.arg[2] = "closing"
  /\ resp[last.arg[1]].status = 200
  /\ activeOps > 0

(***************************************************************************)
(* SpecLock: the registry under its lock tm.mu (a sync.RWMutex), with two  *)
(* goroutines making calls and administrative operations.  RLock succeeds  *)
(* when no goroutine is blocked in Lock (a blocked Lock keeps new readers  *)
(* out); Lock succeeds when no read lock is held.  An operation that takes *)
(* the lock, works and releases it without waiting in between is one step. *)
(***************************************************************************)
CanRLock == wwait = {}
\* Mutant: a Lock that does not wait for the readers.
CanLockAnyway == TRUE \/ \A g \in Procs : rlocks[g] = 0

CanLock == \A g \in Procs : rlocks[g] = 0

\* CallTool / CallToolStream: tm.mu.RLock(), defer RUnlock, the lookup loop;
\* with no tool found the call returns its error.
CallEnter(g, op, name, args) ==
  /\ tcall[g].pc = "idle"
  /\ nops < MaxAdminOps
  /\ CanRLock
  /\ nops' = nops + 1
  /\ IF Resolve(cats, name) = {}
       THEN /\ tcall' = [tcall EXCEPT ![g] =
                          [NoCall EXCEPT !.pc = "returned", !.op = op, !.arg = <<name, args>>,
                                         !.after = <<last>>,
                                         !.out = Err(ToolNotFound(name))]]
            /\ rlocks' = rlocks
       ELSE \E c \in Resolve(cats, name) :
              /\ tcall' = [tcall EXCEPT ![g] =
                            [NoCall EXCEPT
                               !.pc = IF op = "CallToolStream"
                                         /\ ~SupportsStream(cats[c].tools[name])
                                        THEN "fallback" ELSE "resolved",
                               !.op = op, !.arg = <<name, args>>,
                               !.tool = <<cats[c].tools[name]>>,
                               !.timeout = cats[c].config.Timeout,
                               !.depth = 1, !.after = <<last>>]]
              /\ rlocks' = [rlocks EXCEPT ![g] = @ + 1]
  /\ UNCHANGED <<cats, last, wwait, poolVars, clientVars, srvVars, stopVars, strVars>>

\* CallToolStream, the tool is no StreamTool: return tm.CallTool(ctx, name,
\* args), which takes the read lock again and looks the tool up again.
FallbackEnter(g) ==
  /\ tcall[g].pc = "fallback"
  /\ CanRLock
  /\ \E c \in Resolve(cats, tcall[g].arg[1]) :
       tcall' = [tcall EXCEPT ![g].pc = "resolved", ![g].tool = <<cats[c].tools[tcall[g].arg[1]]>>,
                              ![g].timeout = cats[c].config.Timeout, ![g].depth = 2]
  /\ rlocks' = [rlocks EXCEPT ![g] = @ + 1]
  /\ UNCHANGED <<regVars, wwait, poolVars, clientVars, srvVars, stopVars, strVars>>

\* tool.Execute / ExecuteStream returns and the call returns its result; the
\* deferred RUnlocks run.
ToolReturns(g) ==
  /\ tcall[g].pc = "resolved"
  /\ LET t == tcall[g].tool[1]
         args == tcall[g].arg[2]
         res == IF tcall[g].op = "CallToolStream" /\ SupportsStream(t)
                  THEN TextExecuteStream(args) ELSE ToolExecute(t, args)
         ems == IF tcall[g].op = "CallToolStream" /\ SupportsStream(t)
                  THEN StreamEmissions(args) ELSE <<>>
     IN tcall' = [tcall EXCEPT ![g].pc = "returned", ![g].depth = 0,
                               ![g].out = ToolCallResult(res), ![g].emits = ems]
  /\ rlocks' = [rlocks EXCEPT ![g] = @ - tcall[g].depth]
  /\ UNCHANGED <<regVars, wwait, poolVars, clientVars, srvVars, stopVars, strVars>>

\* GetTools: RLock, the listing, RUnlock.
GetToolsRun(g) ==
  /\ tcall[g].pc = "idle"
  /\ nops < MaxAdminOps
  /\ CanRLock
  /\ nops' = nops + 1
  /\ tcall' = [tcall EXCEPT ![g] =
                 [NoCall EXCEPT !.pc = "returned", !.op = "GetTools", !.after = <<last>>,
                                !.out = Ok(GetTools(cats))]]
  /\ UNCHANGED <<cats, last, rlocks, wwait, poolVars, clientVars, srvVars, stopVars, strVars>>

\* RegisterTool / EnableCategory / DisableCategory / UpdateCategoryConfig
\* reach tm.mu.Lock().
AdminRequest(g, op, arg) ==
  /\ tcall[g].pc = "idle"
  /\ nops < MaxAdminOps
  /\ nops' = nops + 1
  /\ tcall' = [tcall EXCEPT ![g] = [NoCall EXCEPT !.pc = "locking", !.op = op, !.arg = arg]]
  /\ wwait' = wwait \cup {g}
  /\ UNCHANGED <<cats, last, rlocks, poolVars, clientVars, srvVars, stopVars, strVars>>

\* ... Lock() is granted, the operation runs and returns (defer Unlock).
AdminRun(g) ==
  /\ tcall[g].pc = "locking"
  /\ CanLock
  /\ LET op == tcall[g].op
         a == tcall[g].arg
         err == CASE op = "RegisterTool" -> RegisterToolError(cats, a[1])
                  [] op \in {"EnableCategory", "DisableCategory"} -> SetEnabledError(cats, a[1])
                  [] op = "UpdateCategoryConfig" -> UpdateConfigError(cats, a[1])
     IN /\ cats' = CASE op = "RegisterTool" -> RegisterToolCats(cats, a[1])
                      [] op = "EnableCategory" -> SetEnabledCats(cats, a[1], TRUE)
                      [] op = "DisableCategory" -> SetEnabledCats(cats, a[1], FALSE)
                      [] op = "UpdateCategoryConfig" -> UpdateConfigCats(cats, a[1], a[2])
        /\ last' = [op |-> op, arg |-> a, err |-> err]
        /\ tcall' = [tcall EXCEPT ![g].pc = "returned",
                                  ![g].out = IF err = NoError THEN Ok(<<>>) ELSE Err(err),
                                  ![g].before = <<cats>>, ![g].post = <<cats'>>]
  /\ wwait' = wwait \ {g}
  /\ UNCHANGED <<nops, rlocks, poolVars, clientVars, srvVars, stopVars, strVars>>

\* The caller has taken the result; the goroutine may start another call.
CallDone(g) ==
  /\ tcall[g].pc = "returned"
  /\ tcall' = [tcall EXCEPT ![g] = NoCall]
  /\ UNCHANGED <<regVars, rlocks, wwait, poolVars, clientVars, srvVars, stopVars, strVars>>

LockNames == {"calculator", "stream_text_processor", "foo"}
LockArguments == {CalcArgs(Some("add"), 1, 2, <<>>), TextArgs(Some(<<"a">>), Some("reverse"))}
LockCategories == {"math", "utility", "legacy"}
LockConfigValues == {CategoryConfig(TRUE, CfgMaxTools, 0, 100)}
LockTools == {Tool("calculator", "utility", "plain")}

NextLock ==
  \E g \in PairProcs :
    \/ \E n \in LockNames, a \in LockArguments : CallEnter(g, "CallTool", n, a)
    \/ \E n \in LockNames, a \in LockArguments : CallEnter(g, "CallToolStream", n, a)
    \/ FallbackEnter(g)
    \/ ToolReturns(g)
    \/ GetToolsRun(g)
    \/ \E t \in LockTools : AdminRequest(g, "RegisterTool", <<t>>)
    \/ \E c \in LockCategories : AdminRequest(g, "EnableCategory", <<c>>)
    \/ \E c \in LockCategories : AdminRequest(g, "DisableCategory", <<c>>)
    \/ \E c \in LockCategories, cfg \in LockConfigValues :
         AdminRequest(g, "UpdateCategoryConfig", <<c, cfg>>)
    \/ AdminRun(g)
    \/ CallDone(g)

SpecLock == Init /\ [][NextLock]_vars

\* Every goroutine that can take its next step inside a call takes it.
LockProgress(g) == FallbackEnter(g) \/ ToolReturns(g) \/ AdminRun(g) \/ CallDone(g)

SpecLockLive == SpecLock /\ \A g \in PairProcs : WF_vars(LockProgress(g))

IsToolCall(g) == tcall[g].op \in {"CallTool", "CallToolStream"}
\* The call of g is past its lookup with a tool and has not returned.
InFlight(g) == IsToolCall(g) /\ tcall[g].pc \in {"fallback", "resolved"}
IsAdmin(g) == tcall[g].op \in {"RegisterTool", "EnableCategory", "DisableCategory",
                               "UpdateCategoryConfig"}
\* This step is the return of the administrative operation of g.
AdminCompletes(g) == IsAdmin(g) /\ tcall[g].pc = "locking" /\ tcall'[g].pc = "returned"

\* C27: while a CallTool or CallToolStream is past its lookup and has not
\* returned, no RegisterTool, EnableCategory, DisableCategory or
\* UpdateCategoryConfig completes and the registry does not change: the
\* operation waits until every such call has returned.
C27_WritersWaitForCalls ==
  [][(\E h \in Procs : InFlight(h))
       => /\ \A g \in Procs : ~AdminCompletes(g)
          /\ cats' = cats]_vars

\* An administrative operation is waiting at the lock while a call that
\* started before it is executing its tool.
C27_Witness ==
  \E g, h \in Procs :
    /\ IsAdmin(g) /\ tcall[g].pc = "locking"
    /\ InFlight(h) /\ tcall[h].pc = "resolved"

CategoryOps == {"EnableCategory", "DisableCategory", "UpdateCategoryConfig"}
\* A call starts in this step, after a category operation that succeeded.
StartsAfter(g) ==
  /\ tcall[g].pc = "idle"
  /\ tcall'[g].op \in {"CallTool", "CallToolStream", "GetTools"}
  /\ last.op \in CategoryOps /\ last.err = NoError
\* ... and what it sees is the registry as that operation left it.
ObservesLast(g) ==
  LET c == last.arg[1]
      holds == tcall'[g].op # "GetTools" /\ tcall'[g].arg[1] \in DOMAIN cats[c].tools
  IN CASE last.op = "DisableCategory" ->
            /\ tcall'[g].tool # <<>> => tcall'[g].tool[1].category # c
            /\ tcall'[g].op = "GetTools" => \A i \in tcall'[g].out.val : i.category # c
       [] last.op = "EnableCategory" ->
            /\ holds => tcall'[g].tool # <<>>
            /\ tcall'[g].op = "GetTools"
                 => \A n \in DOMAIN cats[c].tools : ToolInfo(cats[c].tools[n]) \in tcall'[g].out.val
       [] last.op = "UpdateCategoryConfig" ->
            (tcall'[g].tool # <<>> /\ tcall'[g].tool[1].category = c)
               => tcall'[g].timeout = last.arg[2].Timeout

\* The parts of C26 that are no matter of progress: a category operation on
\* a name outside the fixed set returns CategoryNotFound and changes
\* nothing, and a call that starts after a successful one sees its effect.
C26_SafetyPart ==
  /\ [][\A g \in Procs :
          (AdminCompletes(g) /\ tcall[g].op \in CategoryOps /\ tcall[g].arg[1] \notin Categories)
            => /\ tcall'[g].out = Err(CategoryNotFound(tcall[g].arg[1]))
               /\ cats' = cats]_vars
  /\ [][\A g \in Procs : StartsAfter(g) => ObservesLast(g)]_vars

\* C26: EnableCategory, DisableCategory and UpdateCategoryConfig on a name
\* outside the fixed set return CategoryNotFound and change nothing; a
\* CallTool, CallToolStream or GetTools that starts after one of them has
\* returned successfully sees the new state; and a call that has resolved its
\* tool goes on to return.
C26_CategoryOpsAndCalls ==
  /\ C26_SafetyPart
  /\ \A g \in PairProcs : InFlight(g) ~> (IsToolCall(g) /\ tcall[g].pc = "returned")

(***************************************************************************)
(* SpecCalls: tools/call requests on both endpoints, among them calls the  *)
(* tool fails.                                                             *)
(***************************************************************************)
CallArguments ==
  {CalcArgs(Some("add"), 1, 2, <<>>), CalcArgs(Some("divide"), 1, 0, <<>>),
   CalcArgs(Some("power"), 1, 2, <<>>), OtherArgs,
   TextArgs(Some(<<"a", "b">>), Some("reverse")), TextArgs(Some(<<"a">>), Some("zip")),
   TextArgs(None, Some("count"))}
CallBodies ==
  {J(Some("tools/call"), Some("1"), CallParams(n, a)) :
     n \in {"calculator", "stream_text_processor", "foo"}, a \in CallArguments}

NextCalls ==
  \E r \in PairProcs :
    \/ Arrive(r, Endpoints)
    \/ CheckAdmission(r)
    \/ AddActive(r)
    \/ MCPReadBody(r, IF r = 1 THEN CallBodies ELSE CoreBodies)
    \/ MCPAcquire(r)
    \/ MCPAcquireStep(r)
    \/ MCPAcquired(r)
    \/ MCPDispatch(r)
    \/ MCPRelease(r)
    \/ MCPReleaseStep(r)
    \/ MCPReleased(r)
    \/ StreamReadBody(r, IF r = 1 THEN CallBodies ELSE CoreStreamBodies)
    \/ StreamCall(r)
    \/ StreamEmit(r)
    \/ StreamEnd(r)
    \/ Done(r)

SpecCalls == Init /\ [][NextCalls]_vars

\* The request of r is a tools/call whose name resolves to a tool.
CallsTool(r) ==
  /\ rreq[r] # NoReq
  /\ rreq[r].method = Some("tools/call")
  /\ rreq[r].params # None
  /\ rreq[r].params[1].name # None
  /\ Lookup(cats, rreq[r].params[1].name[1]) # {}
\* What the invoke of tool t returns for the request of r: ExecuteStream on
\* /mcp/stream for a StreamTool, Execute otherwise.
InvokeOf(r, t) ==
  IF endpoint[r] = "stream" /\ t.impl = "stream_text_processor"
    THEN TextExecuteStream(rreq[r].params[1].arguments)
    ELSE ToolExecute(t, rreq[r].params[1].arguments)
\* The handler of r has returned from the registry call.
CallReturned(r) ==
  \/ endpoint[r] = "mcp" /\ Dispatched(r)
  \/ StreamOver(r)

\* C28: when the invoke of the resolved tool fails, /mcp answers with the
\* error envelope of code -32603 whose message is the tool's error message
\* and with no result, and /mcp/stream ends with an error event that carries
\* that same message and sends no done event.
C28_ToolErrorVerbatim ==
  \A r \in Procs :
    (CallsTool(r) /\ CallReturned(r)) =>
      \A t \in Lookup(cats, rreq[r].params[1].name[1]) :
        ~InvokeOf(r, t).ok =>
          /\ endpoint[r] = "mcp" =>
               /\ resp[r].kind = "error" /\ resp[r].code = -32603
               /\ resp[r].msg = InvokeOf(r, t).val
               /\ resp[r].result = None
          /\ endpoint[r] = "stream" =>
               /\ sent[r][Len(sent[r])] = [kind |-> "error", message |-> InvokeOf(r, t).val]
               /\ \A i \in DOMAIN sent[r] : sent[r][i].kind # "done"

\* C28 witness: the calculator's division by zero has been answered on /mcp
\* and the stream processor's failure on /mcp/stream, the latter after
\* callbacks had been made.
C28_Witness ==
  \E r, q \in Procs :
    /\ endpoint[r] = "mcp" /\ CallsTool(r) /\ CallReturned(r)
    /\ resp[r].msg = <<"division by zero", "">>
    /\ endpoint[q] = "stream" /\ CallsTool(q) /\ CallReturned(q)
    /\ Len(sent[q]) > 2
    /\ sent[q][Len(sent[q])].kind = "error"

\* The enabled categories that hold the name of the call of g.
EnabledHolders(g) ==
  {c \in Categories : cats[c].enabled /\ tcall[g].arg[1] \in DOMAIN cats[c].tools}

\* C29: the tool a CallTool has resolved is held under that name by an
\* enabled category, never by a disabled one; with exactly one enabled
\* category holding the name it is that category's tool, whatever disabled
\* categories hold; and the timeout applied is that of the category the tool
\* was resolved from.
C29_ResolvesEnabledOnly ==
  \A g \in Procs :
    (tcall[g].op = "CallTool" /\ tcall[g].pc = "resolved") =>
      LET t == tcall[g].tool[1]
          name == tcall[g].arg[1]
      IN /\ cats[t.category].enabled
         /\ \E c \in EnabledHolders(g) :
              cats[c].tools[name] = t /\ tcall[g].timeout = cats[c].config.Timeout
         /\ \A c \in Categories : (~cats[c].enabled /\ name \in DOMAIN cats[c].tools)
                                      => cats[c].tools[name] # t
         /\ Cardinality(EnabledHolders(g)) = 1
              => \A c \in EnabledHolders(g) : t = cats[c].tools[name]

\* C29 witness: a call has resolved the name in the one enabled category
\* that holds it while a disabled category holds the name too.
C29_Witness ==
  \E g \in Procs :
    /\ tcall[g].op = "CallTool" /\ tcall[g].pc = "resolved"
    /\ Cardinality(EnabledHolders(g)) = 1
    /\ \E c \in Categories : ~cats[c].enabled /\ tcall[g].arg[1] \in DOMAIN cats[c].tools

(***************************************************************************)
(* SpecAgree: CallTool and CallToolStream on stream_text_processor side by *)
(* side, on every kind of argument.                                        *)
(***************************************************************************)
AgreeArguments ==
  {OtherArgs, NullArgs, CalcArgs(Some("add"), 1, 2, <<>>)}
  \cup {TextArgs(t, o) :
          t \in {None, Some(<<"a">>), Some(<<"a", " ", "B">>), Some(<<" ">>)},
          o \in {None} \cup {Some(x) : x \in TextOperations \cup {"zip", ""}}}

NextAgree ==
  \E g \in PairProcs :
    \/ \E a \in AgreeArguments : CallEnter(g, "CallTool", "stream_text_processor", a)
    \/ \E a \in AgreeArguments : CallEnter(g, "CallToolStream", "stream_text_processor", a)
    \/ ToolReturns(g)
    \/ CallDone(g)

SpecAgree == Init /\ [][NextAgree]_vars

\* C30: on the same arguments ExecuteStream and Execute of
\* stream_text_processor both fail, or both succeed with the same result:
\* a CallToolStream and a CallTool that have returned on the same arguments
\* have returned the same.
C30_StreamAgreesWithExecute ==
  \A g, h \in Procs :
    (/\ tcall[g].op = "CallTool" /\ tcall[g].pc = "returned"
     /\ tcall[h].op = "CallToolStream" /\ tcall[h].pc = "returned"
     /\ tcall[g].tool = <<StreamTextProcessor>> /\ tcall[h].tool = <<StreamTextProcessor>>
     /\ tcall[g].arg = tcall[h].arg)
      => /\ tcall[g].out.ok = tcall[h].out.ok
         /\ tcall[g].out = tcall[h].out

\* C30 witness: both calls have returned the count of the same text.
C30_Witness ==
  \E g, h \in Procs :
    /\ tcall[g].op = "CallTool" /\ tcall[g].pc = "returned"
    /\ tcall[h].op = "CallToolStream" /\ tcall[h].pc = "returned"
    /\ tcall[g].arg = tcall[h].arg
    /\ tcall[g].arg[2] = TextArgs(Some(<<"a", " ", "B">>), Some("count"))
    /\ tcall[h].out.ok

(***************************************************************************)
(* SpecTools: one caller running the two registered tools, through         *)
(* CallTool and CallToolStream, on texts that hold a character of two      *)
(* bytes, on arguments without text or operation, and on calculator        *)
(* arguments in both shapes.                                               *)
(***************************************************************************)
ToolAlphabet == {"a", "B", " ", "\n", "U+00E9"}
\* Every text shorter than MaxTextLen, and two longer ones of several words
\* and lines.
ToolLongTexts == {<<"a", " ", "B">>, <<"U+00E9", "\n", " ", "a", "B">>}
ToolTexts == UNION {[1..n -> ToolAlphabet] : n \in 0..(MaxTextLen - 1)} \cup ToolLongTexts
ToolTextArguments ==
  {NullArgs, OtherArgs}
  \cup {TextArgs(t, o) :
          t \in {None, NotAString} \cup {Some(x) : x \in ToolTexts},
          o \in {None, NotAString} \cup {Some(x) : x \in OperationNames}}
ToolCalcArguments ==
  {CalcArgs(Some(o), a, b, l) :
     o \in {"divide", "add"}, a \in {1}, b \in {0, 2},
     l \in {<<>>, <<3>>, <<3, 0>>, <<3, 2>>, <<3, 0, 2>>}}

NextTools ==
  \/ \E a \in ToolTextArguments : CallEnter(SeqProc, "CallTool", "stream_text_processor", a)
  \/ \E a \in ToolTextArguments : CallEnter(SeqProc, "CallToolStream", "stream_text_processor", a)
  \/ \E a \in ToolCalcArguments : CallEnter(SeqProc, "CallTool", "calculator", a)
  \/ \E a \in ToolCalcArguments : CallEnter(SeqProc, "CallToolStream", "calculator", a)
  \/ FallbackEnter(SeqProc)
  \/ ToolReturns(SeqProc)
  \/ CallDone(SeqProc)

SpecTools == Init /\ [][NextTools]_vars

\* The call of the caller has returned from the tool of this name.
Returned(name) ==
  /\ tcall[SeqProc].pc = "returned"
  /\ tcall[SeqProc].tool # <<>>
  /\ tcall[SeqProc].arg[1] = name
\* The reference computations: the words of a text are cut at its white
\* space, left to right.
RECURSIVE WordsOf(_, _, _)
WordsOf(s, cur, acc) ==
  IF s = <<>> THEN (IF cur = <<>> THEN acc ELSE Append(acc, cur))
  ELSE IF Head(s) \in {" ", "\n", "\t"}
    THEN WordsOf(Tail(s), <<>>, IF cur = <<>> THEN acc ELSE Append(acc, cur))
    ELSE WordsOf(Tail(s), Append(cur, Head(s)), acc)
RECURSIVE Reversed(_)
Reversed(s) == IF s = <<>> THEN <<>> ELSE Append(Reversed(Tail(s)), Head(s))
RECURSIVE LinesOf(_)
LinesOf(s) == IF s = <<>> THEN 1 ELSE LinesOf(Tail(s)) + (IF Head(s) = "\n" THEN 1 ELSE 0)

\* C31: on a non-empty text and an operation among split, reverse, count
\* and analyze, Execute succeeds with original_text the text, operation the
\* operation and result the reference value (split: the words in order;
\* reverse: the characters in reverse order; count: the numbers of
\* characters, words and lines); on any other operation it fails.
C31_ExecuteMatchesReference ==
  (/\ Returned("stream_text_processor")
   /\ tcall[SeqProc].op = "CallTool"
   /\ tcall[SeqProc].arg[2].kind = "object"
   /\ IsString(tcall[SeqProc].arg[2].text) /\ IsString(tcall[SeqProc].arg[2].operation)
   /\ tcall[SeqProc].arg[2].text[1] # <<>>) =>
    LET text == tcall[SeqProc].arg[2].text[1]
        op == tcall[SeqProc].arg[2].operation[1]
        out == tcall[SeqProc].out
    IN IF op \in {"split", "reverse", "count", "analyze"}
         THEN /\ out.ok
              /\ out.val.content[1].text.original_text = text
              /\ out.val.content[1].text.operation = op
              /\ op = "split" => out.val.content[1].text.result = WordsOf(text, <<>>, <<>>)
              /\ op = "reverse" => out.val.content[1].text.result = Reversed(text)
              /\ op = "count" =>
                   out.val.content[1].text.result =
                     [characters |-> Len(text), words |-> Len(WordsOf(text, <<>>, <<>>)),
                      lines |-> LinesOf(text)]
         ELSE ~out.ok

\* C32: without an operation that is a string the operation used and
\* reported is "analyze"; without a text that is a non-empty string the call
\* fails with "text parameter is required" whatever the operation, and the
\* streaming call makes no callback.
C32_DefaultsAndRequiredText ==
  (/\ Returned("stream_text_processor")
   /\ tcall[SeqProc].arg[2].kind \in {"object", "null"}) =>
    LET a == tcall[SeqProc].arg[2]
        out == tcall[SeqProc].out
        hasText == IsString(a.text) /\ a.text[1] # <<>>
    IN /\ (hasText /\ ~IsString(a.operation)) =>
            /\ out.ok
            /\ out.val.content[1].text.operation = "analyze"
            /\ out.val.content[1].text.result = TextResult(a.text[1], "analyze")
       /\ ~hasText =>
            /\ out = Err(<<"text parameter is required", "">>)
            /\ tcall[SeqProc].emits = <<>>

\* C32 witness: a streaming call with a text and an operation that is no
\* string has returned the analysis after its callbacks.
C32_Witness ==
  /\ Returned("stream_text_processor")
  /\ tcall[SeqProc].op = "CallToolStream"
  /\ tcall[SeqProc].arg[2].operation = NotAString
  /\ tcall[SeqProc].out.ok
  /\ tcall[SeqProc].emits # <<>>

\* C33: a calculator call with operation divide whose second operand is 0
\* fails with "division by zero" and returns no result; the operands are
\* the first two of the operands list when it has two or more elements,
\* else a and b.
C33_DivisionByZero ==
  (/\ Returned("calculator")
   /\ tcall[SeqProc].arg[2].operation = Some("divide")) =>
    LET a == tcall[SeqProc].arg[2]
        second == IF Len(a.operands) >= 2 THEN a.operands[2] ELSE a.b
    IN /\ second = 0 => tcall[SeqProc].out = Err(<<"division by zero", "">>)
       /\ second # 0 => tcall[SeqProc].out.ok

\* C33 witness: a division has failed on an operands list whose second
\* element is 0 although b is not 0.
C33_Witness ==
  /\ Returned("calculator")
  /\ tcall[SeqProc].arg[2].operation = Some("divide")
  /\ tcall[SeqProc].arg[2].b # 0
  /\ Len(tcall[SeqProc].arg[2].operands) = 2
  /\ tcall[SeqProc].out = Err(<<"division by zero", "">>)

\* C34: a CallToolStream on a tool that is no StreamTool returns, whatever
\* administrative operations are requested beside it.
C34_FallbackReturns ==
  \A g \in PairProcs :
    (tcall[g].op = "CallToolStream" /\ tcall[g].pc = "fallback")
      ~> (tcall[g].op = "CallToolStream" /\ tcall[g].pc = "returned")

AdminStep(op) == last'.op = op /\ nops' = nops + 1

\* C36: UpdateCategoryConfig replaces the stored configuration of its
\* category and nothing else: no effective flag, no tool, no other
\* category's configuration; EnableCategory and DisableCategory set the
\* effective flag of their category and nothing else: every stored
\* configuration, as GetCategories returns it, and every tool stay.
C36_ConfigAndFlagApart ==
  /\ [][AdminStep("UpdateCategoryConfig") =>
          /\ \A c \in Categories :
               /\ cats'[c].enabled = cats[c].enabled
               /\ cats'[c].tools = cats[c].tools
               /\ cats'[c].config =
                    IF c = last'.arg[1] THEN last'.arg[2] ELSE cats[c].config
          /\ DOMAIN cats' = DOMAIN cats]_vars
  /\ [][(AdminStep("EnableCategory") \/ AdminStep("DisableCategory")) =>
          /\ GetCategories(cats') = GetCategories(cats)
          /\ \A c \in Categories :
               /\ cats'[c].tools = cats[c].tools
               /\ cats'[c].enabled =
                    IF c = last'.arg[1] THEN last'.op = "EnableCategory" ELSE cats[c].enabled]_vars

\* C36 witness: after an UpdateCategoryConfig the stored Enabled value of
\* the category and its effective flag differ, and the category holds a tool.
C36_Witness ==
  /\ last.op = "UpdateCategoryConfig" /\ last.err = NoError
  /\ cats[last.arg[1]].config = last.arg[2]
  /\ cats[last.arg[1]].config.Enabled # cats[last.arg[1]].enabled
  /\ DOMAIN cats[last.arg[1]].tools # {}

(***************************************************************************)
(* SpecRestore: two goroutines switching categories on and off and         *)
(* registering a tool; each keeps the record of its last operation, with   *)
(* the registry it found and the registry it left.                         *)
(***************************************************************************)
RestoreCategories == {"math", "utility"}
RestoreNames == {"calculator", "stream_text_processor", "foo"}

NextRestore ==
  \E g \in PairProcs :
    \/ \E t \in LockTools : AdminRequest(g, "RegisterTool", <<t>>)
    \/ \E c \in RestoreCategories : AdminRequest(g, "EnableCategory", <<c>>)
    \/ \E c \in RestoreCategories : AdminRequest(g, "DisableCategory", <<c>>)
    \/ AdminRun(g)
    \/ CallDone(g)

SpecRestore == Init /\ [][NextRestore]_vars

\* g has disabled c, h has enabled c on the registry g left, and nothing
\* has run since.
DisabledThenEnabled(g, h, c) ==
  /\ tcall[g].pc = "returned" /\ tcall[g].op = "DisableCategory" /\ tcall[g].arg = <<c>>
  /\ tcall[h].pc = "returned" /\ tcall[h].op = "EnableCategory" /\ tcall[h].arg = <<c>>
  /\ tcall[h].before = tcall[g].post
  /\ tcall[h].post = <<cats>>
SameListings(cs, ds) ==
  /\ GetTools(cs) = GetTools(ds)
  /\ \A n \in RestoreNames : Lookup(cs, n) = Lookup(ds, n)
\* An operation that finds the flag as it sets it leaves the registry as it was.
Idempotent ==
  \A g \in Procs :
    (/\ tcall[g].pc = "returned"
     /\ tcall[g].op \in {"EnableCategory", "DisableCategory"}
     /\ tcall[g].out.ok
     /\ tcall[g].before[1][tcall[g].arg[1]].enabled = (tcall[g].op = "EnableCategory"))
      => tcall[g].post = tcall[g].before
\* No step takes a tool out of a category.
ToolsKept ==
  \A c \in Categories : \A n \in DOMAIN cats[c].tools :
    n \in DOMAIN cats'[c].tools /\ cats'[c].tools[n].name = n

\* C39 as stated: DisableCategory followed by EnableCategory on the same
\* category gives back the GetTools and lookup results of before the
\* disable.
C39_DisableEnableRestores ==
  \A g, h \in Procs : \A c \in Categories :
    DisabledThenEnabled(g, h, c) => SameListings(cats, tcall[g].before[1])

\* C39, amended: no step removes a tool, a disabled category included;
\* DisableCategory followed by EnableCategory on the same category gives the
\* registry of before the disable with the category enabled, hence the
\* GetTools and lookup results of before the disable when the category was
\* enabled then; and both operations are idempotent.
C39_DisableEnableRestoresEnabled ==
  /\ [][ToolsKept]_vars
  /\ [](\A g, h \in Procs : \A c \in Categories :
         DisabledThenEnabled(g, h, c) =>
           /\ cats = [tcall[g].before[1] EXCEPT ![c].enabled = TRUE]
           /\ tcall[g].before[1][c].enabled => SameListings(cats, tcall[g].before[1]))
  /\ []Idempotent

\* C39 witness: a category that held a tool and was enabled has been
\* disabled and enabled again.
C39_Witness ==
  \E g, h \in Procs : \E c \in Categories :
    /\ DisabledThenEnabled(g, h, c)
    /\ tcall[g].before[1][c].enabled
    /\ DOMAIN cats[c].tools # {}
    /\ GetTools(cats) # {}

\* The handles in the idle set and the handles counted as in use.
IdlePlusActive == Len(pool) + active

\* C37 as stated: with calls that do not overlap and every handle released
\* once, idle + active <= maxSize in every state.
C37_IdlePlusActiveBounded == IdlePlusActive <= maxSize

\* C37, amended: with calls that do not overlap and every handle released
\* once, idle + active <= maxSize in every state outside Release; inside
\* Release, between the send to the idle set and the decrement of active,
\* the handle is counted twice and the sum is at most maxSize + 1; and every
\* Release finds room in the idle set and queues its handle.
C37_BoundedOutsideRelease ==
  /\ [](ppc[SeqProc] # "rel_dec" => IdlePlusActive <= maxSize)
  /\ [](ppc[SeqProc] = "rel_dec" => IdlePlusActive <= maxSize + 1)
  /\ [](active >= 0 /\ active <= maxSize)
  /\ [][(ppc[SeqProc] = "idle" /\ ppc'[SeqProc] = "rel_dec")
          => (Len(pool) < maxSize /\ pool' = Append(pool, pconn'[SeqProc]))]_vars

\* C37 witness: on a pool of capacity two, two handles have been acquired
\* and released; the idle set is full and the last Release has queued its
\* handle behind the other.
C37_Witness ==
  /\ maxSize = 2
  /\ ppc[SeqProc] = "rel_done"
  /\ Len(pool) = maxSize /\ active = 0
  /\ pool[2] = pconn[SeqProc]

\* The /mcp requests whose handler has been entered and has not returned.
BeingHandled == {r \in Procs : endpoint[r] = "mcp" /\ rpc[r] \notin {"new", "done"}}
\* The requests whose Acquire has counted its handle and whose Release has
\* not yet counted it back.
CountedInActive ==
  {r \in BeingHandled :
     \/ rpc[r] \in {"dispatch", "release"}
     \/ rpc[r] = "acquiring" /\ ppc[r] = "acq_ok"
     \/ rpc[r] = "releasing" /\ ppc[r] = "rel_dec"}
\* The handler of r is at a point before its call of Acquire.
BeforeAcquire(r) == rpc[r] \in {"new", "check", "admitted", "body"}

\* C38: every successful Acquire of the /mcp handler is matched by exactly
\* one Release on every exit path: active is the number of requests between
\* the two, so 0 <= active <= the number of /mcp requests being handled and
\* active = 0 when none is; a handler that has returned holds no handle; and
\* the steps of a request taken before Acquire, its rejections included
\* (draining, method other than POST, body that does not parse, request
\* without method), leave the pool as it is.
C38_AcquireMatchedByRelease ==
  /\ [](/\ active = Cardinality(CountedInActive)
        /\ 0 <= active /\ active <= Cardinality(BeingHandled)
        /\ BeingHandled = {} => active = 0
        /\ \A r \in Procs : rpc[r] \in {"finish", "done"} => rconn[r] = NoConn /\ ppc[r] = "idle")
  /\ [][\A r \in Procs :
          (BeforeAcquire(r) /\ rpc'[r] # rpc[r] /\ rpc'[r] # "acquiring")
            => UNCHANGED <<pool, active, nextId, maxSize>>]_vars

\* C38 witness: one request has left through the error return that follows
\* Acquire and its handle is idle again, the other has been rejected for
\* its HTTP method, and active is 0.
C38_Witness ==
  \E r, q \in Procs :
    /\ endpoint[r] = "mcp" /\ rpc[r] = "done" /\ resp[r].kind = "error" /\ resp[r].code = -32603
    /\ endpoint[q] = "mcp" /\ rpc[q] = "done" /\ resp[q] = HttpError("Method not allowed", 405)
    /\ Len(pool) = 1 /\ active = 0

====
